---------------------------- MODULE Spec2Model ----------------------------
(***************************************************************************)
(* Model of the NET transport proxy engine (src/transport/net.cc):         *)
(*   - the send progress state machine (sendProxyProgress),                *)
(*   - the receive progress state machine (recvProxyProgress),             *)
(*   - the shared buffer pool with reference counting,                     *)
(* together with the two collaborators the state machines talk to: the     *)
(* compute engine (through sendMem/recvMem and the staging buffers) and    *)
(* the fabric plugin (isend / irecv / iflush / test).                      *)
(***************************************************************************)
EXTENDS Integers, Sequences, FiniteSets, TLC

(***************************************************************************)
(* Program constants.                                                      *)
(***************************************************************************)
NCCL_STEPS == 8
NCCL_SHARED_STEPS == 16
NCCL_PROTO_LL == "LL"
NCCL_PROTO_LL128 == "LL128"
NCCL_PROTO_SIMPLE == "SIMPLE"
Protocols == {NCCL_PROTO_LL, NCCL_PROTO_LL128, NCCL_PROTO_SIMPLE}
LLFifoLineBytes == 16
LL128LineBytes == 128

(***************************************************************************)
(* Bounds of the model.                                                    *)
(***************************************************************************)
MaxConns == 3
LocalRanks == 2
P2pnChannels == 2
MaxStartStep == 3
FuseSubs == 6
MaxConnects == 2
MaxCommKeys == 2
MaxNullAnswers == 2
MaxOps == 2
MaxGroupSubs == 4
MaxRecvComms == 3
MaxSubs == 8
MaxSliceSteps == 4
MaxSlices == 3
StepSize == 16
P2pChunkSize == 4

\* F applied to the value of e: e is computed once, however often F uses it.
Bind(e, F(_)) == CHOOSE out \in {F(x) : x \in {e}} : TRUE

Min(a, b) == IF a < b THEN a ELSE b
RoundNone(x, y) == x
ROUNDUP(x, y) == ((x + y - 1) \div y) * y
DIVUP(x, y) == (x + y - 1) \div y
\* NCCL_LL_FLAG(a) is (uint32_t)(a): the low 32 bits of the step.  The steps of the
\* model stay far below 2^31 (the largest integer of the checker), where the cast
\* leaves the value as it is.
NCCL_LL_FLAG(a) == a

Slots == 0 .. (NCCL_STEPS - 1)

(***************************************************************************)
(* Staging memory.  A location is <<region, byte offset>>; region -1 is    *)
(* the shared pool of the local peer, region s >= 0 the dedicated buffer   *)
(* of sub s's connection.  The content of a slice start is the payload     *)
(* written there, <<connection, step>> of the slice, and, for the LL       *)
(* protocols, the flag words of its lines.                                 *)
(***************************************************************************)
PoolRegion == -1
NoLoc == <<-2, 0>>
NoPay == <<-1, -1>>
ZeroContent == [pay |-> NoPay, f1 |-> <<>>, f2 |-> <<>>]
MemRead(mem, loc) == IF loc \in DOMAIN mem THEN mem[loc] ELSE ZeroContent
MemWrite(mem, loc, c) == [l \in (DOMAIN mem) \cup {loc} |-> IF l = loc THEN c ELSE mem[l]]
FlagAt(fl, i) == IF i \in DOMAIN fl THEN fl[i] ELSE 0

(***************************************************************************)
(* Fabric requests.                                                        *)
(***************************************************************************)
NullReq == [st |-> "null", loc |-> NoLoc, size |-> 0, step |-> -1]
NewReq(loc, size, step) == [st |-> "pend", loc |-> loc, size |-> size, step |-> step]

(***************************************************************************)
(* The fabric is reliable and keeps the order of each connection: a        *)
(* message enters the wire when its isend is accepted, and its bytes are   *)
(* read from the send buffer at some moment between then and the           *)
(* completion of the send request (the latest of which is modelled: when   *)
(* the request completes, or when the message is delivered, whichever      *)
(* comes first).                                                           *)
(***************************************************************************)
Msg(step, loc, size) ==
  [step |-> step, loc |-> loc, size |-> size, captured |-> FALSE, content |-> ZeroContent]
Capture(mem, m) ==
  IF m.captured THEN m ELSE [m EXCEPT !.captured = TRUE, !.content = MemRead(mem, m.loc)]

VARIABLES
  sargs,   \* send ncclProxyArgs: state, nsubs, sliceSteps, chunkSteps, protocol, done, idle
  ssubs,   \* send ncclProxySubArgs, one per sub
  sres,    \* sendResources and the sendMem/recvMem words of each sub's connection
  smem,    \* staging memory on the send side
  scomp,   \* the sending compute engine's position, per sub
  slog,    \* fabric calls made per sub by the last sendProxyProgress call
  wire,    \* the fabric: per connection, the messages sent and not yet received
  rargs,   \* recv ncclProxyArgs
  rsubs,   \* recv ncclProxySubArgs, in the order of args->subs
  rres,    \* recvResources and the sendMem/recvMem words, per connection
  rmem,    \* staging memory on the receive side
  rcomp,   \* the receiving compute engine's position and what it read, per connection
  rlog,    \* fabric calls made by the last recvProxyProgress call, in order
  pool,    \* progressState->localPeers: the array and the ncclProxyPeer of each local rank
  conns,   \* the proxy connections that use the pool, with their resources
  netComms \* progressState->netComms: the fabric comms that connections share

sendVars == <<sargs, ssubs, sres, smem, scomp, slog>>
recvVars == <<rargs, rsubs, rres, rmem, rcomp, rlog>>
poolVars == <<pool, conns, netComms>>
vars == <<sargs, ssubs, sres, smem, scomp, slog, wire, rargs, rsubs, rres, rmem, rcomp, rlog,
          pool, conns, netComms>>

SubIds(n) == 0 .. (n - 1)

(***************************************************************************)
(* sharedBuffersGet                                                        *)
(***************************************************************************)
sharedBuffersGet(channel, slot) == P2pChunkSize * ((channel * NCCL_SHARED_STEPS) + slot)

(***************************************************************************)
(* The shared pool of a local rank: struct ncclProxyPeer with one          *)
(* ncclProxySharedP2p per direction (type 0 is send, type 1 is recv).  A   *)
(* buffer pointer is null, points to an allocation, or still points to an  *)
(* allocation that was freed.                                              *)
(***************************************************************************)
LocalRankIds == 0 .. (LocalRanks - 1)
ConnIds == 1 .. MaxConns

\* struct ncclSharedNetComms of a (netDev, rank, channel): zeroed when allocated (lines
\* 514-516, 649-651).
CommKeys == 0 .. (MaxCommKeys - 1)
NoNetComms ==
  [k \in CommKeys |->
     [sendComm |-> "null", sendRefCount |-> 0, recvComm |-> "null", recvRefCount |-> 0]]

ZeroP2p == [refcount |-> 0, size |-> 0, cudaBuff |-> "null", hostBuff |-> "null"]
NullPeer == [present |-> FALSE, send |-> ZeroP2p, recv |-> ZeroP2p]
NoPool == [array |-> FALSE, peer |-> [lr \in LocalRankIds |-> NullPeer]]

\* Lines 366-373, 502-509, 637-644: the array and the peer record are allocated, zeroed,
\* when absent.
PeerCalloc(pl, localRank) ==
  [array |-> TRUE,
   peer |-> [pl.peer EXCEPT ![localRank] = IF @.present THEN @
                                            ELSE [NullPeer EXCEPT !.present = TRUE]]]

P2pOfType(peer, type) == IF type = 0 THEN peer.send ELSE peer.recv
PeerWith(peer, type, state) ==
  IF type = 0 THEN [peer EXCEPT !.send = state] ELSE [peer EXCEPT !.recv = state]

sharedBuffersInitCounted(pl, cuda, localRank, type, sameProcess, nChannels) ==
  LET pl1 == PeerCalloc(pl, localRank)
      peer == pl1.peer[localRank]
      state == P2pOfType(peer, type)
  IN IF ~cuda /\ ~sameProcess
     THEN [pool |-> [pl1 EXCEPT !.peer[localRank] =
                       PeerWith(peer, type, [state EXCEPT !.refcount = @ + 1])],
           result |-> "InternalError"]
     ELSE [pool |-> pl, result |-> "Success"]

sharedBuffersInit(pl, cuda, localRank, type, sameProcess, nChannels) ==
  LET pl1 == PeerCalloc(pl, localRank)
      peer == pl1.peer[localRank]
      state == P2pOfType(peer, type)
      state1 == [state EXCEPT
                   !.refcount = @ + 1,
                   !.size = IF @ = 0 THEN nChannels * NCCL_SHARED_STEPS * P2pChunkSize ELSE @,
                   !.cudaBuff = IF cuda /\ @ = "null" THEN "alloc" ELSE @,
                   !.hostBuff = IF ~cuda /\ @ = "null" THEN "alloc" ELSE @]
  IN IF ~cuda /\ ~sameProcess
     THEN [pool |-> pl, result |-> "InternalError"]
     ELSE [pool |-> [pl1 EXCEPT !.peer[localRank] = PeerWith(peer, type, state1)],
           result |-> "Success"]

PeerReleaseAlways(pl, localRank) ==
  LET gone == [pl.peer EXCEPT ![localRank] = NullPeer]
  IN [array |-> \E r \in LocalRankIds : gone[r].present, peer |-> gone]

\* Lines 419-428: the peer record goes when neither direction holds it, and the array
\* when no peer record is left.
PeerRelease(pl, localRank) ==
  LET peer == pl.peer[localRank]
      gone == [pl.peer EXCEPT ![localRank] = NullPeer]
  IN IF peer.send.refcount # 0 \/ peer.recv.refcount # 0 THEN pl
     ELSE [array |-> \E r \in LocalRankIds : gone[r].present, peer |-> gone]

\* The outcomes of sharedBuffersDestroy.  Freeing a buffer leaves its pointer in place
\* (lines 416-417); freeing through such a pointer again either goes unnoticed or is
\* refused by the runtime, which ends the call there.
sharedBuffersDestroy(pl, localRank, type) ==
  LET peer == pl.peer[localRank]
      state == P2pOfType(peer, type)
      last == state.refcount - 1 = 0
      again == last /\ (state.cudaBuff = "freed" \/ state.hostBuff = "freed")
      counted == [state EXCEPT !.refcount = @ - 1]
      freed == [counted EXCEPT !.cudaBuff = IF last /\ @ # "null" THEN "freed" ELSE @,
                               !.hostBuff = IF last /\ @ # "null" THEN "freed" ELSE @]
      with(s) == [pl EXCEPT !.peer[localRank] = PeerWith(peer, type, s)]
  IN IF ~pl.array \/ ~peer.present \/ state.size = 0
     THEN {[pool |-> pl, result |-> "InternalError"]}
     ELSE {[pool |-> PeerRelease(with(freed), localRank), result |-> "Success"]}
          \cup IF again THEN {[pool |-> with(counted), result |-> "UnhandledCudaError"]}
               ELSE {}

MaxDepthUnshared(nsubs) == NCCL_STEPS
MaxDepthTwice(nsubs) == 2 * NCCL_STEPS

\* Lines 843, 993: the depth of the pipeline of each sub of an op of nsubs subs.
MaxDepthOf(nsubs) == Min(NCCL_STEPS, NCCL_SHARED_STEPS \div nsubs)

(***************************************************************************)
(* sendProxyProgress.  st is the part of the state the call works on:      *)
(* [args, subs, res, log].  acc[s] is the plugin's answer to an isend of   *)
(* sub s in this call (TRUE: a request, FALSE: a null request).            *)
(***************************************************************************)
SendOpReady(st) ==
  [st EXCEPT !.subs = [s \in DOMAIN st.subs |->
                         [st.subs[s] EXCEPT !.base = ROUNDUP(st.res[s].step, st.args.chunkSteps),
                                            !.posted = 0, !.transmitted = 0, !.done = 0]],
             !.args.state = "Progress"]

\* The window test of lines 854 and 874: a cursor may advance while it is less than
\* depth steps ahead of done.
SendWindowFree(sub, cursor, depth) == TRUE
SendWindow(sub, cursor, depth) == cursor < sub.done + depth

\* Lines 854-872: post buffers to the GPU.
SendPostCondNoDepth(sub, maxDepth) == sub.posted < sub.nsteps
SendPostCond(sub, maxDepth) ==
  sub.posted < sub.nsteps /\ SendWindow(sub, sub.posted, maxDepth)

SendPost(st, s) ==
  LET a == st.args
      sub == st.subs[s]
      r == st.res[s]
      maxDepth == MaxDepthOf(a.nsubs)
      buffSlot == (sub.base + sub.posted) % NCCL_STEPS
      sharedBuffSlot == sub.posted % maxDepth
      offset == sharedBuffersGet(sub.channelId, sharedBuffSlot * a.nsubs + s)
      posted2 == sub.posted + a.sliceSteps
      sendHead == sub.base + posted2 - NCCL_STEPS
  IN IF r.shared
     THEN [st EXCEPT !.res[s].offsFifo[buffSlot] = offset,
                     !.res[s].head = IF r.gdcSync THEN @ ELSE sendHead,
                     !.res[s].gdcWord = IF r.gdcSync THEN sendHead ELSE @,
                     !.subs[s].posted = posted2,
                     !.log[s].getSlot = sharedBuffSlot * a.nsubs + s,
                     !.args.idle = 0]
     ELSE [st EXCEPT !.subs[s].posted = posted2, !.args.idle = 0]

\* Lines 874-878: is there something to send for the slice at transmitted.
SendTransmitCondNoPosted(sub) == SendWindow(sub, sub.transmitted, NCCL_STEPS)
SendTransmitCond(sub) ==
  sub.transmitted < sub.posted /\ SendWindow(sub, sub.transmitted, NCCL_STEPS)

SendDataPresentTailOnly(p, sub, r) ==
  LET buffSlot == (sub.base + sub.transmitted) % NCCL_STEPS
  IN r.sizesFifo[buffSlot] # -1 /\ r.tail > sub.base + sub.transmitted
SendDataPresent(p, sub, r) ==
  LET buffSlot == (sub.base + sub.transmitted) % NCCL_STEPS
  IN r.sizesFifo[buffSlot] # -1
     /\ (r.tail > sub.base + sub.transmitted \/ p = NCCL_PROTO_LL)

SendSizeOfOp(sub, r) == sub.nbytes

\* Line 880: the size of the slice at transmitted is what sizesFifo holds for its slot.
SendSize(sub, r) == r.sizesFifo[(sub.base + sub.transmitted) % NCCL_STEPS]

\* Line 882: where the slice lies.
SendBuff(p, s, sub, r) ==
  LET buffSlot == (sub.base + sub.transmitted) % NCCL_STEPS
      stepSize == r.buffSizes[p] \div NCCL_STEPS
  IN IF p = NCCL_PROTO_SIMPLE /\ r.shared
     THEN <<PoolRegion, r.offsFifo[buffSlot]>>
     ELSE <<s, buffSlot * stepSize>>

SendReadyFirstLine(p, sub, r, size, content) ==
  LET flag == sub.base + sub.transmitted + 1
  IN p = NCCL_PROTO_SIMPLE \/ (FlagAt(content.f1, 1) = flag /\ FlagAt(content.f2, 1) = flag)

\* Lines 883-906: the readiness check of the LL protocols.
SendReady(p, sub, r, size, content) ==
  IF p = NCCL_PROTO_LL128
  THEN r.useGdr
       \/ LET flag == sub.base + sub.transmitted + 1
              nFifoLines == DIVUP(size, LL128LineBytes)
          IN \A i \in 1 .. nFifoLines : FlagAt(content.f1, i) = flag
  ELSE IF p = NCCL_PROTO_LL
  THEN LET flag == NCCL_LL_FLAG(sub.base + sub.transmitted + 1)
           nFifoLines == DIVUP(size, LLFifoLineBytes)
       IN \A i \in 1 .. nFifoLines :
             FlagAt(content.f1, i) = flag /\ FlagAt(content.f2, i) = flag
  ELSE TRUE

SendIsendCounted(st, s, accepted) ==
  [st EXCEPT !.log[s].isend = IF accepted THEN "ok" ELSE "null",
             !.subs[s].transmitted = @ + st.args.sliceSteps]

\* Lines 907-920: ncclNetIsend and what follows a non-null request.
SendIsend(st, s, accepted) ==
  LET a == st.args
      sub == st.subs[s]
      r == st.res[s]
      p == a.protocol
      buffSlot == (sub.base + sub.transmitted) % NCCL_STEPS
      size == SendSize(sub, r)
      buff == SendBuff(p, s, sub, r)
      called == [st EXCEPT !.log[s].isend = IF accepted THEN "ok" ELSE "null",
                           !.log[s].isendSize = size,
                           !.log[s].isendLoc = buff,
                           !.log[s].isendSlot = buffSlot]
  IN IF accepted
     THEN [called EXCEPT !.subs[s].requests[buffSlot] = NewReq(buff, size, sub.base + sub.transmitted),
                         !.wire[s] = Append(@, Msg(sub.base + sub.transmitted, buff, size)),
                         !.res[s].sizesFifo[buffSlot] = -1,
                         !.subs[s].transmitted = @ + a.sliceSteps,
                         !.args.idle = 0]
     ELSE [called EXCEPT !.subs[s].requests[buffSlot] = NullReq]

SendHeadNoBase(sub, done) == done

\* Line 935: the head published once done steps of the sub are complete.
SendHeadAt(sub, done) == sub.base + done

\* Lines 923-944: ncclNetTest on the oldest request, and the release of its slice.
SendTest(st, s) ==
  LET a == st.args
      sub == st.subs[s]
      r == st.res[s]
      buffSlot == (sub.base + sub.done) % NCCL_STEPS
      req == sub.requests[buffSlot]
      done == req.st = "comp"
      done2 == sub.done + a.sliceSteps
      sendHead == SendHeadAt(sub, done2)
      tested == [st EXCEPT !.log[s].test = IF done THEN "done" ELSE req.st,
                           !.log[s].testSlot = buffSlot]
      finished == done2 = sub.nsteps
  IN IF done
     THEN [tested EXCEPT !.subs[s].requests[buffSlot].st = "reaped",
                         !.subs[s].done = done2,
                         !.res[s].head = IF ~r.shared /\ ~r.gdcSync THEN sendHead ELSE @,
                         !.res[s].gdcWord = IF ~r.shared /\ r.gdcSync THEN sendHead ELSE @,
                         !.args.idle = 0,
                         !.res[s].step = IF finished THEN sub.base + sub.nsteps ELSE @,
                         !.args.done = IF finished THEN @ + 1 ELSE @]
     ELSE tested

\* Lines 845-944: the body of the loop for sub s.
SendSub(st, s, accepted) ==
  LET a == st.args
      sub == st.subs[s]
      r == st.res[s]
      p == a.protocol
      maxDepth == MaxDepthOf(a.nsubs)
      size == SendSize(sub, r)
      trying == SendTransmitCond(sub) /\ SendDataPresent(p, sub, r)
                /\ SendReady(p, sub, r, size, MemRead(st.mem, SendBuff(p, s, sub, r)))
      afterB == IF trying THEN SendIsend(st, s, accepted) ELSE st
  IN IF sub.done = sub.nsteps THEN st
     ELSE IF SendPostCond(sub, maxDepth) THEN SendPost(st, s)
     ELSE IF trying /\ accepted THEN afterB
     ELSE IF afterB.subs[s].done < afterB.subs[s].transmitted THEN SendTest(afterB, s)
     ELSE afterB

\* Lines 844-945: the loop over the subs.
RECURSIVE SendLoop(_, _, _)
SendLoop(st, s, acc) ==
  IF s >= st.args.nsubs THEN st
  ELSE Bind(SendSub(st, s, acc[s]), LAMBDA next : SendLoop(next, s + 1, acc))

NoLog == [isend |-> "none", isendSize |-> 0, isendLoc |-> NoLoc, isendSlot |-> -1,
          test |-> "none", testSlot |-> -1, getSlot |-> -1]

SendOpDone(st) ==
  IF st.args.state = "Progress" /\ st.args.done = st.args.nsubs
  THEN [st EXCEPT !.args.state = "None"]
  ELSE st

sendProxyProgress(st, acc) ==
  LET st1 == IF st.args.state = "Ready" THEN SendOpReady(st) ELSE st
      st2 == [st1 EXCEPT !.args.idle = 1, !.log = [s \in DOMAIN st1.subs |-> NoLog]]
  IN IF st2.args.state = "Progress" THEN SendOpDone(SendLoop(st2, 0, acc)) ELSE st2

(***************************************************************************)
(* The state after the op has been enqueued on freshly connected           *)
(* connections (sendProxyConnect, lines 597-602): args->state is Ready,    *)
(* args->done is 0, resources->step is 0, sendMem->head is                  *)
(* shared ? -NCCL_STEPS : 0, the GDR-copy head mirror (when present) is    *)
(* zeroed memory, sizesFifo is -1 everywhere, the rest of the mapped       *)
(* memory is zero.                                                          *)
(***************************************************************************)
SendModes ==
  {[protocol |-> NCCL_PROTO_SIMPLE, shared |-> sh, gdcSync |-> g, useGdr |-> FALSE] :
      sh \in BOOLEAN, g \in BOOLEAN}
  \cup {[protocol |-> NCCL_PROTO_LL, shared |-> sh, gdcSync |-> FALSE, useGdr |-> FALSE] :
      sh \in BOOLEAN}
  \cup {[protocol |-> NCCL_PROTO_LL128, shared |-> FALSE, gdcSync |-> FALSE, useGdr |-> u] :
      u \in BOOLEAN}

\* sliceSteps varies for the SIMPLE protocol, on ops with one busy sub.
BusySubs(pl) == {s \in SubIds(pl.nsubs) : pl.k[s] > 0}
SliceStepsOf(pl, protocol) ==
  IF protocol = NCCL_PROTO_SIMPLE /\ Cardinality(BusySubs(pl)) <= 1
  THEN 1 .. MaxSliceSteps ELSE {1}

\* The ops of the model, as [nsubs, k]: sub s has k[s] slices.  Either one sub (the
\* first or the last of the op) has up to MaxSlices slices, or the first and the last
\* sub share MaxSlices slices; every other sub of the op has nothing to transfer.
OpPlans ==
  LET one == {[nsubs |-> x[1], k |-> [s \in SubIds(x[1]) |-> IF s = x[2] THEN j ELSE 0]] :
                 x \in {<<1, 0>>, <<MaxSubs, 0>>, <<MaxSubs, MaxSubs - 1>>},
                 j \in 0 .. MaxSlices}
      two == {[nsubs |-> n, k |-> [s \in SubIds(n) |->
                                     IF s = 0 THEN i ELSE IF s = n - 1 THEN j ELSE 0]] :
                 n \in {2, MaxSubs}, i \in 1 .. MaxSlices, j \in 1 .. MaxSlices}
  IN {pl \in one : \E s \in SubIds(pl.nsubs) : pl.k[s] > 0 \/ pl.nsubs = 1}
     \cup {pl \in two : pl.k[0] + pl.k[pl.nsubs - 1] <= MaxSlices}

\* Channels of the subs of one op: sub 0 on channel 0, the others all on channel 0 or
\* all on channel 1.  The channel only matters to the shared pool.
ChannelChoices(nsubs, mode) ==
  {[s \in SubIds(nsubs) |-> IF s = 0 THEN 0 ELSE c] :
      c \in IF mode.shared /\ mode.protocol = NCCL_PROTO_SIMPLE /\ nsubs > 1
            THEN {0, 1} ELSE {0}}

InitSendSub(nsteps, nbytes, channelId) ==
  [base |-> 0, posted |-> 0, transmitted |-> 0, done |-> 0,
   nsteps |-> nsteps, nbytes |-> nbytes, channelId |-> channelId,
   requests |-> [i \in Slots |-> NullReq]]

InitSendRes(mode) ==
  [step |-> 0, shared |-> mode.shared, gdcSync |-> mode.gdcSync, useGdr |-> mode.useGdr,
   head |-> IF mode.shared THEN -NCCL_STEPS ELSE 0,
   gdcWord |-> 0,
   tail |-> 0,
   sizesFifo |-> [i \in Slots |-> -1],
   offsFifo |-> [i \in Slots |-> 0],
   buffSizes |-> [q \in Protocols |->
                    IF mode.shared /\ q = NCCL_PROTO_SIMPLE
                    THEN 2 * NCCL_SHARED_STEPS * P2pChunkSize
                    ELSE NCCL_STEPS * StepSize]]

\* The sending compute engine of a sub: its step, the step its op ends at, the bytes it
\* puts in a slice, and where it is in filling the slice at its step.
InitSendComp(nsteps, size) ==
  [step |-> 0, last |-> nsteps, size |-> size, phase |-> "wait", loc |-> NoLoc, nflags |-> 0]

InitSendOp(nsubs, sliceSteps, mode, k, ch) ==
  /\ sargs = [state |-> "Ready", nsubs |-> nsubs, sliceSteps |-> sliceSteps,
              chunkSteps |-> sliceSteps, protocol |-> mode.protocol, done |-> 0, idle |-> 1]
  /\ ssubs = [s \in SubIds(nsubs) |->
                InitSendSub(k[s] * sliceSteps, StepSize * sliceSteps, ch[s])]
  /\ sres = [s \in SubIds(nsubs) |-> InitSendRes(mode)]
  /\ smem = <<>>
  /\ scomp = [s \in SubIds(nsubs) |-> InitSendComp(k[s] * sliceSteps, StepSize * sliceSteps)]
  /\ slog = [s \in SubIds(nsubs) |-> NoLog]

\* No connection is being set up or torn down, the pool stays as it is.
NoConns ==
  /\ pool = NoPool
  /\ conns = <<>>
  /\ netComms = NoNetComms

\* No receive op: the receive side of the model stays as it is.
NoRecvOp ==
  /\ rargs = [state |-> "None", nsubs |-> 0, sliceSteps |-> 1, chunkSteps |-> 1,
              protocol |-> NCCL_PROTO_SIMPLE, done |-> 0, idle |-> 1]
  /\ rsubs = <<>>
  /\ rres = <<>>
  /\ rmem = <<>>
  /\ rcomp = <<>>
  /\ rlog = <<>>

InitSend ==
  /\ \E pl \in OpPlans, mode \in SendModes :
       \E sliceSteps \in SliceStepsOf(pl, mode.protocol),
          ch \in ChannelChoices(pl.nsubs, mode) :
         /\ InitSendOp(pl.nsubs, sliceSteps, mode, pl.k, ch)
         /\ wire = [s \in SubIds(pl.nsubs) |-> <<>>]
  /\ NoRecvOp
  /\ NoConns

(***************************************************************************)
(* One call of sendProxyProgress by the proxy thread, on an active op.     *)
(***************************************************************************)
\* The subs that reach ncclNetIsend in a call made in this state (lines 846-907).
SendTrying(st, s) ==
  LET sub == st.subs[s]
      r == st.res[s]
      p == st.args.protocol
      started == IF st.args.state = "Ready"
                 THEN [sub EXCEPT !.posted = 0, !.transmitted = 0, !.done = 0,
                                  !.base = ROUNDUP(r.step, st.args.chunkSteps)]
                 ELSE sub
      size == r.sizesFifo[(started.base + started.transmitted) % NCCL_STEPS]
  IN /\ started.done # started.nsteps
     /\ ~SendPostCond(started, MaxDepthOf(st.args.nsubs))
     /\ SendTransmitCond(started)
     /\ SendDataPresent(p, started, r)
     /\ SendReady(p, started, r, size, MemRead(st.mem, SendBuff(p, s, started, r)))

SendState ==
  [args |-> sargs, subs |-> ssubs, res |-> sres, log |-> slog, mem |-> smem, wire |-> wire]

SendTryingSubs == {s \in DOMAIN ssubs : SendTrying(SendState, s)}

\* The call in which the plugin accepts the isend of the subs in accepted and answers
\* the others with a null request.
SendProgressWith(accepted) ==
  /\ sargs.state # "None"
  /\ \E st \in {sendProxyProgress(SendState, [s \in DOMAIN ssubs |-> s \in accepted])} :
       /\ sargs' = st.args
       /\ ssubs' = st.subs
       /\ sres' = st.res
       /\ slog' = st.log
       /\ wire' = st.wire
  /\ UNCHANGED <<smem, scomp>>

SendProgressCall ==
  /\ \E accepted \in SUBSET SendTryingSubs : SendProgressWith(accepted)
  /\ UNCHANGED <<recvVars, poolVars>>

\* The call of a plugin that has room for every isend.
SendProgressAccepting ==
  /\ \E accepted \in {SendTryingSubs} : SendProgressWith(accepted)
  /\ UNCHANGED <<recvVars, poolVars>>

(***************************************************************************)
(* The fabric plugin completes an outstanding isend.                       *)
(***************************************************************************)
SendPluginComplete ==
  \E s \in DOMAIN ssubs, i \in Slots :
    /\ ssubs[s].requests[i].st = "pend"
    /\ ssubs' = [ssubs EXCEPT ![s].requests[i].st = "comp"]
    /\ wire' = [wire EXCEPT ![s] = [j \in DOMAIN @ |->
                                      IF @[j].step = ssubs[s].requests[i].step
                                      THEN Capture(smem, @[j]) ELSE @[j]]]
    /\ UNCHANGED <<sargs, sres, smem, scomp, slog>>
    /\ UNCHANGED <<recvVars, poolVars>>

(***************************************************************************)
(* The sending compute engine.  It reads the head word the connection      *)
(* maps for it (the GDR-copy mirror when present, lines 301-303), and may  *)
(* fill the slice at its step once head + NCCL_STEPS covers it: it writes  *)
(* the slice's size into sizesFifo, then the data (with the flag words of  *)
(* the LL protocols, one word at a time), then advances recvMem->tail.     *)
(***************************************************************************)
SendHeadWord(r) == IF r.gdcSync THEN r.gdcWord ELSE r.head

SendComputeSize(c) == c.size

SendComputeLoc(s, r, a, step) ==
  IF a.protocol = NCCL_PROTO_SIMPLE /\ r.shared
  THEN <<PoolRegion, r.offsFifo[step % NCCL_STEPS]>>
  ELSE <<s, (step % NCCL_STEPS) * (r.buffSizes[a.protocol] \div NCCL_STEPS)>>

SendComputeReserve ==
  \E s \in DOMAIN ssubs :
    LET c == scomp[s]
        r == sres[s]
    IN /\ c.phase = "wait"
       /\ c.step < c.last
       /\ SendHeadWord(r) + NCCL_STEPS >= c.step + sargs.sliceSteps
       /\ sres' = [sres EXCEPT ![s].sizesFifo[c.step % NCCL_STEPS] = SendComputeSize(c)]
       /\ scomp' = [scomp EXCEPT ![s].phase = "fill",
                                 ![s].loc = SendComputeLoc(s, r, sargs, c.step),
                                 ![s].nflags = 0]
       /\ UNCHANGED <<sargs, ssubs, smem, slog, wire>>
       /\ UNCHANGED <<recvVars, poolVars>>

\* Flag words of a slice: LL has flag1 and flag2 per 16-byte line, LL128 one per 128-byte line.
SendFlagWords(protocol, size) ==
  IF protocol = NCCL_PROTO_LL THEN 2 * DIVUP(size, LLFifoLineBytes)
  ELSE IF protocol = NCCL_PROTO_LL128 THEN DIVUP(size, LL128LineBytes)
  ELSE 0

SetFlag(fl, i, v) == [j \in 1 .. (IF Len(fl) > i THEN Len(fl) ELSE i) |->
                        IF j = i THEN v ELSE FlagAt(fl, j)]

SendComputeWriteFlag ==
  \E s \in DOMAIN ssubs :
    LET c == scomp[s]
        p == sargs.protocol
        size == SendComputeSize(c)
        old == MemRead(smem, c.loc)
        n == c.nflags
        flag == c.step + 1
        new == IF p = NCCL_PROTO_LL
               THEN IF n % 2 = 0
                    THEN [old EXCEPT !.pay = <<s, c.step>>, !.f1 = SetFlag(old.f1, (n \div 2) + 1, flag)]
                    ELSE [old EXCEPT !.pay = <<s, c.step>>, !.f2 = SetFlag(old.f2, (n \div 2) + 1, flag)]
               ELSE [old EXCEPT !.pay = <<s, c.step>>, !.f1 = SetFlag(old.f1, n + 1, flag)]
    IN /\ c.phase = "fill"
       /\ n < SendFlagWords(p, size)
       /\ smem' = MemWrite(smem, c.loc, new)
       /\ scomp' = [scomp EXCEPT ![s].nflags = n + 1]
       /\ UNCHANGED <<sargs, ssubs, sres, slog, wire>>
       /\ UNCHANGED <<recvVars, poolVars>>

SendComputePost ==
  \E s \in DOMAIN ssubs :
    LET c == scomp[s]
        p == sargs.protocol
        size == SendComputeSize(c)
        old == MemRead(smem, c.loc)
    IN /\ c.phase = "fill"
       /\ c.nflags = SendFlagWords(p, size)
       /\ smem' = MemWrite(smem, c.loc, [old EXCEPT !.pay = <<s, c.step>>])
       /\ sres' = [sres EXCEPT ![s].tail = IF p = NCCL_PROTO_LL THEN @
                                           ELSE c.step + sargs.sliceSteps]
       /\ scomp' = [scomp EXCEPT ![s].phase = "wait", ![s].step = c.step + sargs.sliceSteps,
                                 ![s].loc = NoLoc, ![s].nflags = 0]
       /\ UNCHANGED <<sargs, ssubs, slog, wire>>
       /\ UNCHANGED <<recvVars, poolVars>>

NextSend ==
  \/ SendProgressCall
  \/ SendPluginComplete
  \/ SendComputeReserve
  \/ SendComputeWriteFlag
  \/ SendComputePost

SpecSend == InitSend /\ [][NextSend]_vars

(***************************************************************************)
(* The send machine with its collaborators cooperating: the proxy thread   *)
(* keeps calling the progress function of an active op, the plugin ends    *)
(* up accepting an isend that keeps being offered and completes every      *)
(* request, the compute engine fills every slice it has credit for.  The   *)
(* ops are those of one sub, and those of two subs whose second sub has    *)
(* one slice.                                                              *)
(***************************************************************************)
InitSendLive ==
  /\ \E pl \in {q \in OpPlans : q.nsubs = 1 \/ (q.nsubs = 2 /\ q.k[1] = 1)},
          mode \in SendModes :
       \E sliceSteps \in SliceStepsOf(pl, mode.protocol),
          ch \in ChannelChoices(pl.nsubs, mode) :
         /\ InitSendOp(pl.nsubs, sliceSteps, mode, pl.k, ch)
         /\ wire = [s \in SubIds(pl.nsubs) |-> <<>>]
  /\ NoRecvOp
  /\ NoConns

SpecSendLive ==
  /\ InitSendLive
  /\ [][NextSend]_vars
  /\ WF_vars(SendProgressAccepting)
  /\ WF_vars(SendPluginComplete)
  /\ WF_vars(SendComputeReserve)
  /\ WF_vars(SendComputeWriteFlag)
  /\ WF_vars(SendComputePost)

(***************************************************************************)
(* recvProxyProgress.  st is [args, subs, res, log]: subs is args->subs in *)
(* its current order, each sub naming its connection (conn), res is the    *)
(* recvResources of each connection.                                       *)
(*                                                                         *)
(* A receive request is [st, kind, parts, step]: parts lists, for each     *)
(* buffer handed to irecv or iflush, its connection, location and size.    *)
(***************************************************************************)
RecvNullReq == [st |-> "null", kind |-> "none", parts |-> <<>>, step |-> -1]
RecvNewReq(kind, parts, step) == [st |-> "pend", kind |-> kind, parts |-> parts, step |-> step]

RecvFindNextHere(subs, res, next, recvComm) == next

\* Lines 964-968: the first sub at or after s whose connection uses recvComm.
RECURSIVE RecvFindNext(_, _, _, _)
RecvFindNext(subs, res, next, recvComm) ==
  IF next >= Len(subs) THEN next
  ELSE IF res[subs[next + 1].conn].netRecvComm = recvComm THEN next
  ELSE RecvFindNext(subs, res, next + 1, recvComm)

\* Lines 959-987: initialise the subs and group them by recvComm.  subs is a sequence;
\* the sub the code calls args->subs[s] is subs[s + 1].
RECURSIVE RecvGroupLoop(_, _, _, _, _, _, _)
RecvGroupLoop(subs, res, chunkSteps, s, groupSize, maxRecvs, recvComm) ==
  IF s >= Len(subs) THEN subs
  ELSE
    LET full == groupSize = maxRecvs
        next == RecvFindNext(subs, res, s, recvComm)
        search == ~full /\ s > 0
        g0 == IF full THEN 0
              ELSE IF search /\ next = Len(subs) THEN 0
              ELSE groupSize
        swapped == IF search /\ next # Len(subs) /\ s # next
                   THEN [subs EXCEPT ![s + 1] = subs[next + 1], ![next + 1] = subs[s + 1]]
                   ELSE subs
        g == g0 + 1
        r == res[swapped[s + 1].conn]
        started == [swapped EXCEPT ![s + 1].base = ROUNDUP(r.step, chunkSteps),
                                   ![s + 1].posted = 0, ![s + 1].received = 0,
                                   ![s + 1].transmitted = 0, ![s + 1].done = 0]
        sized == [j \in DOMAIN started |->
                    IF j - 1 <= s /\ j - 1 > s - g
                    THEN [started[j] EXCEPT !.groupSize = g] ELSE started[j]]
    IN Bind(<<sized, g, r.maxRecvs, r.netRecvComm>>,
            LAMBDA x : RecvGroupLoop(x[1], res, chunkSteps, s + 1, x[2], x[3], x[4]))

RecvOpReady(st) ==
  [st EXCEPT !.subs = RecvGroupLoop(st.subs, st.res, st.args.chunkSteps, 0, 0, 1, -1),
             !.args.state = "Progress"]

\* The first subs of the groups, in the order the loops of lines 994, 1044, 1103 and
\* 1129 visit them.
RECURSIVE RecvLeadersFrom(_, _)
RecvLeadersFrom(subs, s) ==
  IF s >= Len(subs) THEN <<>>
  ELSE <<s>> \o RecvLeadersFrom(subs, s + subs[s + 1].groupSize)
RecvLeaders(subs) == RecvLeadersFrom(subs, 0)

\* Lines 1002-1026: collect the buffers of group s for one irecv.  Returns the state
\* (offsFifo is written as the members are visited) and the parts; a member that fails
\* the depth test empties the parts and ends the walk.
RecvBuffAt(p, r, conn, buffSlot) ==
  IF r.shared /\ p = NCCL_PROTO_SIMPLE THEN <<PoolRegion, r.offsFifo[buffSlot]>>
  ELSE <<conn, buffSlot * (r.buffSizes[p] \div NCCL_STEPS)>>

\* A collection without the depth test of line 1005.
RECURSIVE RecvCollectNoDepth(_, _, _, _)
RecvCollectNoDepth(st, s, i, parts) ==
  IF i >= st.subs[s + 1].groupSize THEN [st |-> st, parts |-> parts]
  ELSE
    LET a == st.args
        p == a.protocol
        sub == st.subs[s + i + 1]
        r == st.res[sub.conn]
        buffSlot == (sub.base + sub.posted) % NCCL_STEPS
        slot == (sub.posted % MaxDepthOf(a.nsubs)) * a.nsubs + s + i
        offset == sharedBuffersGet(sub.channelId, slot)
        shared == p = NCCL_PROTO_SIMPLE /\ r.shared
        st1 == IF shared
               THEN [st EXCEPT !.res[sub.conn].offsFifo[buffSlot] = offset,
                               !.log = Append(@, [call |-> "get", sub |-> s + i, slot |-> slot])]
               ELSE st
        ptr == IF shared THEN <<PoolRegion, offset>>
               ELSE <<sub.conn, buffSlot * (r.buffSizes[p] \div NCCL_STEPS)>>
        size == Min((r.buffSizes[p] \div NCCL_STEPS) * a.sliceSteps, sub.nbytes)
        part == [conn |-> sub.conn, loc |-> ptr, size |-> size]
    IN IF sub.posted < sub.nsteps
       THEN Bind(<<st1, Append(parts, part)>>,
                 LAMBDA x : RecvCollectNoDepth(x[1], s, i + 1, x[2]))
       ELSE RecvCollectNoDepth(st, s, i + 1, parts)

RECURSIVE RecvCollect(_, _, _, _)
RecvCollect(st, s, i, parts) ==
  IF i >= st.subs[s + 1].groupSize THEN [st |-> st, parts |-> parts]
  ELSE
    LET a == st.args
        p == a.protocol
        sub == st.subs[s + i + 1]
        r == st.res[sub.conn]
        maxDepth == MaxDepthOf(a.nsubs)
        stepSize == r.buffSizes[p] \div NCCL_STEPS
        buffSlot == (sub.base + sub.posted) % NCCL_STEPS
        sharedBuffSlot == sub.posted % maxDepth
        slot == sharedBuffSlot * a.nsubs + s + i
        offset == sharedBuffersGet(sub.channelId, slot)
        shared == p = NCCL_PROTO_SIMPLE /\ r.shared
        st1 == IF shared
               THEN [st EXCEPT !.res[sub.conn].offsFifo[buffSlot] = offset,
                               !.log = Append(@, [call |-> "get", sub |-> s + i, slot |-> slot])]
               ELSE st
        ptr == IF shared THEN <<PoolRegion, offset>> ELSE <<sub.conn, buffSlot * stepSize>>
        size == Min(stepSize * a.sliceSteps, sub.nbytes)
        part == [conn |-> sub.conn, loc |-> ptr, size |-> size]
    IN IF sub.posted < sub.nsteps
       THEN IF sub.posted >= sub.done + maxDepth
            THEN [st |-> st, parts |-> <<>>]
            ELSE Bind(<<st1, Append(parts, part)>>,
                      LAMBDA x : RecvCollect(x[1], s, i + 1, x[2]))
       ELSE RecvCollect(st, s, i + 1, parts)

RecvPostGroupLeader(st, s, accepted) ==
  LET c == RecvCollect(st, s, 0, <<>>)
      st1 == c.st
      lead == st1.subs[s + 1]
      step == lead.posted
      slot == step % NCCL_STEPS
      called == [st1 EXCEPT !.log = Append(@, [call |-> "irecv", sub |-> s, slot |-> slot,
                                               parts |-> c.parts,
                                               answer |-> IF accepted THEN "ok" ELSE "null"])]
  IN IF c.parts = <<>> THEN st1
     ELSE IF accepted
     THEN [called EXCEPT !.subs[s + 1].posted = @ + st.args.sliceSteps,
                         !.subs[s + 1].requests[slot] = RecvNewReq("recv", c.parts, step),
                         !.args.idle = 0]
     ELSE [called EXCEPT !.subs[s + 1].requests[slot] = RecvNullReq]

\* Lines 1027-1040: the irecv of group s; accepted is the plugin's answer.
RecvPostGroup(st, s, accepted) ==
  LET c == RecvCollect(st, s, 0, <<>>)
      st1 == c.st
      lead == st1.subs[s + 1]
      step == lead.posted
      slot == step % NCCL_STEPS
      called == [st1 EXCEPT !.log = Append(@, [call |-> "irecv", sub |-> s, slot |-> slot,
                                               parts |-> c.parts,
                                               answer |-> IF accepted THEN "ok" ELSE "null"])]
      members == {j \in DOMAIN st.subs : j - 1 >= s /\ j - 1 < s + lead.groupSize}
  IN IF c.parts = <<>> THEN st1
     ELSE IF accepted
     THEN [called EXCEPT
             !.subs = [j \in DOMAIN @ |->
                         IF j \in members
                         THEN [@[j] EXCEPT !.posted = @ + st.args.sliceSteps,
                                           !.requests[slot] =
                                              IF j = s + 1 THEN RecvNewReq("recv", c.parts, step)
                                              ELSE @]
                         ELSE @[j]],
             !.args.idle = 0]
     ELSE [called EXCEPT !.subs[s + 1].requests[slot] = RecvNullReq]

\* The members of group s, as indices into subs.
RecvMembers(subs, s) == {j \in DOMAIN subs : j - 1 >= s /\ j - 1 < s + subs[s + 1].groupSize}

RECURSIVE SumSizes(_)
SumSizes(parts) == IF parts = <<>> THEN 0 ELSE Head(parts).size + SumSizes(Tail(parts))

\* Lines 1080-1092: the buffers handed to iflush, members in order.
RECURSIVE RecvFlushParts(_, _, _, _, _)
RecvFlushParts(st, s, i, step, sizes) ==
  IF i >= st.subs[s + 1].groupSize THEN <<>>
  ELSE
    LET p == st.args.protocol
        sub == st.subs[s + i + 1]
        r == st.res[sub.conn]
        buffSlot == (sub.base + sub.posted) % NCCL_STEPS
        ptr == IF r.shared THEN <<PoolRegion, r.offsFifo[buffSlot]>>
               ELSE <<sub.conn, buffSlot * (r.buffSizes[p] \div NCCL_STEPS)>>
    IN IF step < sub.nsteps
       THEN <<[conn |-> sub.conn, loc |-> ptr, size |-> Head(sizes)]>>
            \o RecvFlushParts(st, s, i + 1, step, Tail(sizes))
       ELSE RecvFlushParts(st, s, i + 1, step, sizes)

\* Lines 1046-1099: test the irecv of group s and flush what it received; flushed is
\* the plugin's answer to iflush (a request, or none).  The record of an iflush in the
\* log carries, next to the buffers handed to iflush (parts), those of the irecv whose
\* test just succeeded (recv).
RecvTestGroup(st, s, flushed) ==
  LET a == st.args
      p == a.protocol
      lead == st.subs[s + 1]
      step == lead.received
      slot == step % NCCL_STEPS
      req == lead.requests[slot]
      done == req.st = "comp"
      tested == [st EXCEPT !.log = Append(@, [call |-> "test", sub |-> s, slot |-> slot,
                                              phase |-> "received", req |-> req.st,
                                              kind |-> req.kind])]
      members == RecvMembers(st.subs, s)
      totalSize == SumSizes(req.parts)
      needFlush == \E j \in members : /\ step < st.subs[j].nsteps
                                      /\ st.res[st.subs[j].conn].useGdr
                                      /\ st.res[st.subs[j].conn].needFlush
      received == [tested EXCEPT
                     !.subs = [j \in DOMAIN @ |->
                                 IF j \in members
                                 THEN [@[j] EXCEPT !.received = @ + a.sliceSteps,
                                                   !.requests[slot] =
                                                      IF j = s + 1 THEN RecvNullReq ELSE @]
                                 ELSE @[j]],
                     !.args.idle = 0]
      parts == RecvFlushParts(received, s, 0, step, [k \in DOMAIN req.parts |-> req.parts[k].size])
  IN IF lead.posted > lead.received
     THEN IF done
          THEN IF totalSize > 0 /\ p = NCCL_PROTO_SIMPLE /\ needFlush
               THEN IF st.res[lead.conn].gdcFlush
                    THEN [received EXCEPT !.log = Append(@, [call |-> "gdcFlush", sub |-> s])]
                    ELSE [received EXCEPT
                            !.log = Append(@, [call |-> "iflush", sub |-> s, slot |-> slot,
                                               parts |-> parts, recv |-> req.parts,
                                               answer |-> IF flushed THEN "ok" ELSE "null"]),
                            !.subs[s + 1].requests[slot] =
                               IF flushed THEN RecvNewReq("flush", parts, step)
                               ELSE RecvNullReq]
               ELSE received
          ELSE tested
     ELSE st

RecvCommitCondAlways(lead) == TRUE

\* Line 1105: a group has something to publish when it received past what it
\* transmitted.
RecvCommitCond(lead) == lead.received > lead.transmitted

RecvFlushDoneAlways(req) == TRUE

\* Lines 1107-1109: done is 1 when the slot holds no request, else what ncclNetTest
\* says of the request.
RecvFlushDone(req) == req.st = "null" \/ req.st = "comp"

\* Lines 1105-1125: wait for the flush of group s and publish the tail.
RecvCommitGroup(st, s) ==
  LET a == st.args
      lead == st.subs[s + 1]
      step == lead.transmitted
      slot == step % NCCL_STEPS
      req == lead.requests[slot]
      done == RecvFlushDone(req)
      tested == IF req.st # "null"
                THEN [st EXCEPT !.log = Append(@, [call |-> "test", sub |-> s, slot |-> slot,
                                                   phase |-> "transmitted", req |-> req.st,
                                                   kind |-> req.kind])]
                ELSE st
      members == RecvMembers(st.subs, s)
      tailOf(j) == st.subs[j].base + st.subs[j].transmitted + a.sliceSteps
      publish(j) == j \in members /\ step < st.subs[j].nsteps
  IN IF RecvCommitCond(lead)
     THEN IF done
          THEN [tested EXCEPT
                  !.subs = [j \in DOMAIN @ |->
                              IF j \in members
                              THEN [@[j] EXCEPT !.transmitted = @ + a.sliceSteps]
                              ELSE @[j]],
                  !.res = [c \in DOMAIN @ |->
                             IF \E j \in DOMAIN st.subs : publish(j) /\ st.subs[j].conn = c
                             THEN LET j == CHOOSE j \in DOMAIN st.subs :
                                                publish(j) /\ st.subs[j].conn = c
                                  IN IF @[c].gdcSync
                                     THEN [@[c] EXCEPT !.gdcWord = tailOf(j)]
                                     ELSE [@[c] EXCEPT !.tail = tailOf(j)]
                             ELSE @[c]],
                  !.args.idle = 0]
          ELSE tested
     ELSE st

RecvAckedBeyond(sub, head) == head > sub.base + sub.done + 1
RecvAckedAlways(sub, head) == TRUE

\* Line 1138: the compute engine acknowledged the slice at done.
RecvAcked(sub, head) == head > sub.base + sub.done

\* Lines 1138-1150: the while loop of sub j (an index into subs).
RECURSIVE RecvRelease(_, _, _)
RecvRelease(st, j, head) ==
  LET a == st.args
      sub == st.subs[j]
      done2 == sub.done + a.sliceSteps
      st1 == [st EXCEPT !.subs[j].done = done2, !.args.idle = 0]
  IN IF RecvAcked(sub, head) /\ sub.transmitted > sub.done
     THEN IF done2 = sub.nsteps
          THEN [st1 EXCEPT !.res[sub.conn].step = sub.base + sub.nsteps,
                           !.args.done = @ + 1]
          ELSE Bind(st1, LAMBDA next : RecvRelease(next, j, head))
     ELSE st

\* A release that follows sendMem->head alone, whatever was committed to the tail.
RecvReleaseAhead(st, j) ==
  LET sub == st.subs[j]
      a == st.args
  IN IF sub.done # sub.nsteps /\ RecvAcked(sub, st.res[sub.conn].head)
     THEN [st EXCEPT !.subs[j].done = @ + a.sliceSteps, !.args.idle = 0,
                     !.args.done = IF sub.done + a.sliceSteps = sub.nsteps THEN @ + 1 ELSE @]
     ELSE st

\* Lines 1131-1152: the body of the release loop for sub j.
RecvReleaseSub(st, j) ==
  LET sub == st.subs[j]
  IN IF sub.done = sub.nsteps THEN st
     ELSE IF sub.transmitted > sub.done
     THEN RecvRelease(st, j, st.res[sub.conn].head)
     ELSE st

\* The four loops over the groups.
RECURSIVE RecvPostLoop(_, _, _)
RecvPostLoop(st, leaders, acc) ==
  IF leaders = <<>> THEN st
  ELSE Bind(RecvPostGroup(st, Head(leaders), Head(leaders) \in acc),
            LAMBDA next : RecvPostLoop(next, Tail(leaders), acc))

RECURSIVE RecvTestLoop(_, _, _)
RecvTestLoop(st, leaders, flushed) ==
  IF leaders = <<>> THEN st
  ELSE Bind(RecvTestGroup(st, Head(leaders), flushed),
            LAMBDA next : RecvTestLoop(next, Tail(leaders), flushed))

RECURSIVE RecvCommitLoop(_, _)
RecvCommitLoop(st, leaders) ==
  IF leaders = <<>> THEN st
  ELSE Bind(RecvCommitGroup(st, Head(leaders)),
            LAMBDA next : RecvCommitLoop(next, Tail(leaders)))

RECURSIVE RecvReleaseLoop(_, _)
RecvReleaseLoop(st, j) ==
  IF j > Len(st.subs) THEN st
  ELSE Bind(RecvReleaseSub(st, j), LAMBDA next : RecvReleaseLoop(next, j + 1))

\* Lines 1129-1156: release credits, and retire the op when every sub is done.
RecvOpDone(st) ==
  IF st.args.done = st.args.nsubs THEN [st EXCEPT !.args.state = "None"] ELSE st
RecvPhaseD(st) == Bind(RecvReleaseLoop(st, 1), LAMBDA stD : RecvOpDone(stD))

\* Lines 1103-1127: commit to the tail; return if something moved.
RecvPhaseC(st, leaders) ==
  Bind(RecvCommitLoop(st, leaders),
       LAMBDA stC : IF stC.args.idle = 0 THEN stC ELSE RecvPhaseD(stC))

\* Lines 1044-1101: detect completions and flush; return if something moved.
RecvPhaseB(st, leaders, flushed) ==
  Bind(RecvTestLoop(st, leaders, flushed),
       LAMBDA stB : IF stB.args.idle = 0 THEN stB ELSE RecvPhaseC(stB, leaders))

\* Posting that goes on to the completions whether or not a receive was posted.
RecvPhaseAThrough(st, leaders, acc, flushed) ==
  Bind(RecvPostLoop(st, leaders, acc), LAMBDA stA : RecvPhaseB(stA, leaders, flushed))

\* Lines 994-1042: post receives; return if something moved.
RecvPhaseA(st, leaders, acc, flushed) ==
  Bind(RecvPostLoop(st, leaders, acc),
       LAMBDA stA : IF stA.args.idle = 0 THEN stA ELSE RecvPhaseB(stA, leaders, flushed))

\* A start that leaves args->idle as the previous call left it.
RecvStartKeepIdle(st) ==
  LET st1 == IF st.args.state = "Ready" THEN RecvOpReady(st) ELSE st
  IN [st1 EXCEPT !.log = <<>>]

\* Lines 953-990: the Ready step, then args->idle = 1.
RecvStart(st) ==
  LET st1 == IF st.args.state = "Ready" THEN RecvOpReady(st) ELSE st
  IN [st1 EXCEPT !.args.idle = 1, !.log = <<>>]

\* acc: the groups (by first sub) whose irecv the plugin answers with a request in this
\* call; flushed: whether it answers an iflush with a request.
recvProxyProgress(st, acc, flushed) ==
  Bind(RecvStart(st),
       LAMBDA st2 : IF st2.args.state # "Progress" THEN st2
                    ELSE Bind(RecvLeaders(st2.subs),
                              LAMBDA leaders : RecvPhaseA(st2, leaders, acc, flushed)))

(***************************************************************************)
(* The state after a receive op has been enqueued on freshly connected     *)
(* connections (recvProxyConnect, lines 629-750): the mapped host memory   *)
(* and the GDR-copy words are zeroed, so sendMem->head, recvMem->tail and  *)
(* the tail mirror are 0.  Connection c is the one of the sub enqueued at  *)
(* position c.                                                             *)
(***************************************************************************)
RecvModes ==
  {[protocol |-> NCCL_PROTO_SIMPLE, shared |-> sh, gdcSync |-> FALSE,
    useGdr |-> fl # "none", needFlush |-> fl # "none", gdcFlush |-> fl = "gdc"] :
      sh \in BOOLEAN, fl \in {"none", "gdc", "net"}}
  \cup {[protocol |-> NCCL_PROTO_SIMPLE, shared |-> sh, gdcSync |-> TRUE,
         useGdr |-> FALSE, needFlush |-> FALSE, gdcFlush |-> FALSE] : sh \in BOOLEAN}
  \cup {[protocol |-> NCCL_PROTO_LL, shared |-> FALSE, gdcSync |-> FALSE,
         useGdr |-> TRUE, needFlush |-> TRUE, gdcFlush |-> FALSE],
        [protocol |-> NCCL_PROTO_LL128, shared |-> FALSE, gdcSync |-> FALSE,
         useGdr |-> FALSE, needFlush |-> FALSE, gdcFlush |-> FALSE]}

\* The receive ops of the model, as [comms, maxRecvs, k]: the sub at position s uses
\* the fabric comm comms[s + 1] and has k[s + 1] slices.
RecvPlans ==
  {[comms |-> <<0>>, maxRecvs |-> 1, k |-> <<j>>] : j \in 0 .. MaxSlices}
  \cup {[comms |-> <<0, 0>>, maxRecvs |-> 2, k |-> <<i, j>>] :
          i \in 1 .. (MaxSlices - 1), j \in 1 .. (MaxSlices - 1)}
  \cup {[comms |-> c, maxRecvs |-> m, k |-> [s \in DOMAIN c |-> 1]] :
          c \in {<<0, 0>>, <<0, 1, 0>>, <<0, 0, 0>>}, m \in {1, 2}}
  \cup {[comms |-> [s \in 1 .. MaxSubs |-> IF m = 1 THEN s ELSE 0], maxRecvs |-> m,
         k |-> [s \in 1 .. MaxSubs |-> IF s = b THEN j ELSE 0]] :
          m \in {1, MaxSubs}, b \in {1, MaxSubs}, j \in 1 .. MaxSlices}

RecvSliceStepsOf(pl, protocol) ==
  IF protocol = NCCL_PROTO_SIMPLE /\ Cardinality({s \in DOMAIN pl.k : pl.k[s] > 0}) <= 1
  THEN {1, MaxSliceSteps - 1} ELSE {1}

\* Ops of several subs run in three of the modes.
RecvModesOf(pl) ==
  IF Len(pl.k) = 1 THEN RecvModes
  ELSE {m \in RecvModes :
          \/ m.protocol = NCCL_PROTO_LL
          \/ m.protocol = NCCL_PROTO_SIMPLE /\ m.shared /\ m.needFlush /\ ~m.gdcFlush
          \/ m.protocol = NCCL_PROTO_SIMPLE /\ ~m.shared /\ m.gdcSync}

InitRecvSub(conn, nsteps, nbytes, channelId) ==
  [base |-> 0, posted |-> 0, received |-> 0, transmitted |-> 0, done |-> 0,
   nsteps |-> nsteps, nbytes |-> nbytes, channelId |-> channelId, groupSize |-> 0,
   requests |-> [i \in Slots |-> RecvNullReq], conn |-> conn]

InitRecvRes(mode, comm, maxRecvs) ==
  [step |-> 0, shared |-> mode.shared, useGdr |-> mode.useGdr, needFlush |-> mode.needFlush,
   gdcSync |-> mode.gdcSync, gdcFlush |-> mode.gdcFlush,
   netRecvComm |-> comm, maxRecvs |-> maxRecvs,
   head |-> 0, tail |-> 0, gdcWord |-> 0,
   offsFifo |-> [i \in Slots |-> 0],
   buffSizes |-> [q \in Protocols |->
                    IF mode.shared /\ q = NCCL_PROTO_SIMPLE
                    THEN 2 * NCCL_SHARED_STEPS * P2pChunkSize
                    ELSE NCCL_STEPS * StepSize]]

InitRecvComp(nsteps) == [step |-> 0, nsteps |-> nsteps, read |-> <<>>]

InitRecvOp(pl, sliceSteps, mode, ch) ==
  LET n == Len(pl.k)
  IN /\ rargs = [state |-> "Ready", nsubs |-> n, sliceSteps |-> sliceSteps,
                 chunkSteps |-> sliceSteps, protocol |-> mode.protocol, done |-> 0, idle |-> 1]
     /\ rsubs = [j \in 1 .. n |->
                   InitRecvSub(j - 1, pl.k[j] * sliceSteps, StepSize * sliceSteps, ch[j - 1])]
     /\ rres = [c \in SubIds(n) |-> InitRecvRes(mode, pl.comms[c + 1], pl.maxRecvs)]
     /\ rmem = <<>>
     /\ rcomp = [c \in SubIds(n) |-> InitRecvComp(pl.k[c + 1] * sliceSteps)]
     /\ rlog = <<>>

\* No send op: the send side of the model stays as it is.
NoSendOp ==
  /\ sargs = [state |-> "None", nsubs |-> 0, sliceSteps |-> 1, chunkSteps |-> 1,
              protocol |-> NCCL_PROTO_SIMPLE, done |-> 0, idle |-> 1]
  /\ ssubs = <<>>
  /\ sres = <<>>
  /\ smem = <<>>
  /\ scomp = <<>>
  /\ slog = <<>>

\* What the remote peer sends on connection c: one message per slice, in order, each
\* carrying <<c, step>> and the flag words of its lines.
RemoteContent(protocol, c, step, size) ==
  [pay |-> <<c, step>>,
   f1 |-> IF protocol = NCCL_PROTO_LL
          THEN [i \in 1 .. DIVUP(size, LLFifoLineBytes) |-> step + 1]
          ELSE IF protocol = NCCL_PROTO_LL128
          THEN [i \in 1 .. DIVUP(size, LL128LineBytes) |-> step + 1]
          ELSE <<>>,
   f2 |-> IF protocol = NCCL_PROTO_LL
          THEN [i \in 1 .. DIVUP(size, LLFifoLineBytes) |-> step + 1] ELSE <<>>]

RemoteSends(protocol, c, k, sliceSteps) ==
  [i \in 1 .. k |->
     [step |-> (i - 1) * sliceSteps, loc |-> NoLoc, size |-> StepSize * sliceSteps,
      captured |-> TRUE,
      content |-> RemoteContent(protocol, c, (i - 1) * sliceSteps, StepSize * sliceSteps)]]

InitRecv ==
  /\ \E pl \in RecvPlans :
       \E mode \in RecvModesOf(pl) :
       \E sliceSteps \in RecvSliceStepsOf(pl, mode.protocol),
          ch \in ChannelChoices(Len(pl.k), mode) :
         /\ InitRecvOp(pl, sliceSteps, mode, ch)
         /\ wire = [c \in SubIds(Len(pl.k)) |->
                      RemoteSends(mode.protocol, c, pl.k[c + 1], sliceSteps)]
  /\ NoSendOp
  /\ NoConns

(***************************************************************************)
(* One call of recvProxyProgress by the proxy thread, on an active op.     *)
(***************************************************************************)
RecvState == [args |-> rargs, subs |-> rsubs, res |-> rres, log |-> rlog]

\* The groups that reach ncclNetIrecv in a call made in state st (lines 994-1031).
RecvPostingIn(st, leaders) ==
  {s \in {leaders[k] : k \in DOMAIN leaders} : RecvCollect(st, s, 0, <<>>).parts # <<>>}
RecvPosting(st) ==
  Bind(RecvStart(st), LAMBDA st2 :
         Bind(RecvLeaders(st2.subs), LAMBDA leaders : RecvPostingIn(st2, leaders)))

RecvCalls(log, call) == {i \in DOMAIN log : log[i].call = call}

\* The call in which the plugin answers the irecv of the groups in acc with a request
\* and the others with none, and an iflush with a request if flushed.
RecvProgressWith(acc, flushed) ==
  /\ rargs.state # "None"
  /\ \E st \in {recvProxyProgress(RecvState, acc, flushed)} :
       /\ flushed \/ RecvCalls(st.log, "iflush") # {}
       /\ rargs' = st.args
       /\ rsubs' = st.subs
       /\ rres' = st.res
       /\ rlog' = st.log
  /\ UNCHANGED <<rmem, rcomp>>

RecvProgressCall ==
  /\ \E acc \in SUBSET RecvPosting(RecvState), flushed \in BOOLEAN :
       RecvProgressWith(acc, flushed)
  /\ UNCHANGED wire
  /\ UNCHANGED <<sendVars, poolVars>>

\* The call of a plugin that has room for every irecv and iflush.
RecvProgressAccepting ==
  /\ \E acc \in {RecvPosting(RecvState)} : RecvProgressWith(acc, TRUE)
  /\ UNCHANGED wire
  /\ UNCHANGED <<sendVars, poolVars>>

(***************************************************************************)
(* The fabric plugin completes an outstanding request.  A receive          *)
(* completes when a message has arrived for each of its buffers: the       *)
(* messages leave the wire, their bytes are written to the buffers and     *)
(* their sizes are what test reports; the receives of a comm are matched   *)
(* in the order they were posted.  A flush just completes.                 *)
(***************************************************************************)
RECURSIVE Deliver(_, _, _, _)
Deliver(mem, w, parts, from) ==
  IF parts = <<>> THEN mem
  ELSE LET part == Head(parts)
           m == Capture(from, Head(w[part.conn]))
       IN Deliver(MemWrite(mem, part.loc, m.content), w, Tail(parts), from)

RecvPluginComplete ==
  \E j \in DOMAIN rsubs, i \in Slots :
    LET req == rsubs[j].requests[i]
        filled == {req.parts[k].conn : k \in DOMAIN req.parts}
    IN /\ req.st = "pend"
       /\ IF req.kind = "recv"
          THEN /\ \A c \in filled : wire[c] # <<>>
               /\ \A i2 \in Slots :
                    (rsubs[j].requests[i2].st = "pend" /\ rsubs[j].requests[i2].kind = "recv")
                       => rsubs[j].requests[i2].step >= req.step
               /\ rmem' = Deliver(rmem, wire, req.parts, smem)
               /\ wire' = [c \in DOMAIN wire |-> IF c \in filled THEN Tail(wire[c]) ELSE wire[c]]
               /\ rsubs' = [rsubs EXCEPT
                              ![j].requests[i].st = "comp",
                              ![j].requests[i].parts =
                                 [k \in DOMAIN req.parts |->
                                    [req.parts[k] EXCEPT !.size = Head(wire[req.parts[k].conn]).size]]]
          ELSE /\ rsubs' = [rsubs EXCEPT ![j].requests[i].st = "comp"]
               /\ UNCHANGED <<rmem, wire>>
       /\ UNCHANGED <<rargs, rres, rcomp, rlog>>
       /\ UNCHANGED <<sendVars, poolVars>>

(***************************************************************************)
(* The receiving compute engine.  With the SIMPLE protocol it waits for    *)
(* the tail word the connection maps for it (the GDR-copy mirror when      *)
(* present, lines 330-331) to pass its step; with the LL protocols it      *)
(* polls the flag words of the slice.  It then reads the slice and         *)
(* releases it by advancing sendMem->head.                                 *)
(***************************************************************************)
RecvTailWord(r) == IF r.gdcSync THEN r.gdcWord ELSE r.tail

RecvArrived(protocol, r, content, step) ==
  IF protocol = NCCL_PROTO_SIMPLE THEN RecvTailWord(r) > step
  ELSE FlagAt(content.f1, 1) = step + 1

RecvCompute ==
  \E c \in DOMAIN rcomp :
    LET cs == rcomp[c]
        r == rres[c]
        loc == RecvBuffAt(rargs.protocol, r, c, cs.step % NCCL_STEPS)
        content == MemRead(rmem, loc)
    IN /\ cs.step < cs.nsteps
       /\ RecvArrived(rargs.protocol, r, content, cs.step)
       /\ rcomp' = [rcomp EXCEPT ![c].read = Append(@, content.pay),
                                 ![c].step = @ + rargs.sliceSteps]
       /\ rres' = [rres EXCEPT ![c].head = cs.step + rargs.sliceSteps]
       /\ UNCHANGED <<rargs, rsubs, rmem, rlog, wire>>
       /\ UNCHANGED <<sendVars, poolVars>>

NextRecv ==
  \/ RecvProgressCall
  \/ RecvPluginComplete
  \/ RecvCompute

SpecRecv == InitRecv /\ [][NextRecv]_vars

(***************************************************************************)
(* The receive machine with its collaborators cooperating: the proxy       *)
(* thread keeps calling the progress function of an active op, the plugin  *)
(* ends up answering an irecv or iflush that keeps being offered with a    *)
(* request and completes every request, the compute engine consumes every  *)
(* slice published to it.  The ops are those of at most three subs.        *)
(***************************************************************************)
InitRecvLive ==
  /\ \E pl \in {q \in RecvPlans : Len(q.k) <= 3} :
       \E mode \in RecvModesOf(pl) :
       \E sliceSteps \in RecvSliceStepsOf(pl, mode.protocol),
          ch \in ChannelChoices(Len(pl.k), mode) :
         /\ InitRecvOp(pl, sliceSteps, mode, ch)
         /\ wire = [c \in SubIds(Len(pl.k)) |->
                      RemoteSends(mode.protocol, c, pl.k[c + 1], sliceSteps)]
  /\ NoSendOp
  /\ NoConns

SpecRecvLive ==
  /\ InitRecvLive
  /\ [][NextRecv]_vars
  /\ WF_vars(RecvProgressAccepting)
  /\ WF_vars(RecvPluginComplete)
  /\ WF_vars(RecvCompute)

(***************************************************************************)
(* Properties of the send state machine.                                   *)
(***************************************************************************)
SendSubs == DOMAIN ssubs
SendFabricCalled(s) == slog[s].isend # "none" \/ slog[s].test # "none"

\* C1: on the send side every sub has posted >= transmitted >= done in every reachable
\* state, whatever the interleaving of progress calls, compute writes and completions.
C1_SendCursorOrder ==
  \A s \in SendSubs : ssubs[s].posted >= ssubs[s].transmitted
                      /\ ssubs[s].transmitted >= ssubs[s].done
\* A sub in the middle of its pipeline: the three cursors are all different and done moved.
C1_Witness ==
  \E s \in SendSubs : /\ ssubs[s].posted > ssubs[s].transmitted
                      /\ ssubs[s].transmitted > ssubs[s].done
                      /\ ssubs[s].done > 0

\* C3: with every sub's nsteps positive (and a multiple of sliceSteps), a cooperating
\* compute engine and plugin, repeated progress calls bring every sub to done = nsteps,
\* args->done to nsubs and the op to state None.
C3_SendCompletes ==
  (\A s \in SendSubs : ssubs[s].nsteps > 0)
    => <>(/\ sargs.state = "None"
          /\ sargs.done = sargs.nsubs
          /\ \A s \in SendSubs : ssubs[s].done = ssubs[s].nsteps)
\* An op of two subs, with different numbers of steps, has completed.
C3_Witness ==
  /\ sargs.state = "None"
  /\ sargs.nsubs = 2
  /\ sargs.done = 2
  /\ ssubs[0].nsteps > ssubs[1].nsteps
  /\ \A s \in SendSubs : ssubs[s].nsteps > 0 /\ ssubs[s].done = ssubs[s].nsteps

\* C6 (send): an op whose subs all have nsteps = 0 is never left in progress (its first
\* progress call retires it), and no isend or test is made for it.
C6_ZeroStepOpCompletes ==
  (\A s \in SendSubs : ssubs[s].nsteps = 0)
    => /\ sargs.state \in {"Ready", "None"}
       /\ \A s \in SendSubs : ~SendFabricCalled(s)

\* C7, as amended: in shared mode posted never exceeds done by more than maxDepth
\* rounded up to a whole number of slices (which is maxDepth itself when sliceSteps
\* divides maxDepth), and while the compute side has produced nothing transmitted and
\* done stay 0.
C7_SharedPostedBound ==
  \A s \in SendSubs :
    sres[s].shared =>
      /\ ssubs[s].posted <= ssubs[s].done + ROUNDUP(MaxDepthOf(sargs.nsubs), sargs.sliceSteps)
      /\ (scomp[s].step = 0 /\ scomp[s].phase = "wait")
           => (ssubs[s].transmitted = 0 /\ ssubs[s].done = 0)
\* A shared sub stalled by the depth gate, with steps left to post, above done + maxDepth.
C7_Witness ==
  \E s \in SendSubs :
    /\ sres[s].shared
    /\ ssubs[s].posted < ssubs[s].nsteps
    /\ ssubs[s].posted = ssubs[s].done + ROUNDUP(MaxDepthOf(sargs.nsubs), sargs.sliceSteps)
    /\ ssubs[s].posted > ssubs[s].done + MaxDepthOf(sargs.nsubs)
    /\ scomp[s].step = 0 /\ scomp[s].phase = "wait"
\* C7 as stated: in shared mode posted <= done + maxDepth for every nsubs and sliceSteps.
C7_AsStated ==
  \A s \in SendSubs :
    sres[s].shared => ssubs[s].posted <= ssubs[s].done + MaxDepthOf(sargs.nsubs)

\* C8, as amended: transmitted never exceeds done by more than NCCL_STEPS rounded up to
\* a whole number of slices (NCCL_STEPS itself when sliceSteps divides NCCL_STEPS).
C8_TransmittedBound ==
  \A s \in SendSubs :
    ssubs[s].transmitted <= ssubs[s].done + ROUNDUP(NCCL_STEPS, sargs.sliceSteps)
\* The bound is met, both with a sliceSteps that divides NCCL_STEPS and with one that
\* does not.
C8_Witness ==
  \E s \in SendSubs :
    /\ ssubs[s].transmitted = ssubs[s].done + ROUNDUP(NCCL_STEPS, sargs.sliceSteps)
    /\ NCCL_STEPS % sargs.sliceSteps # 0
\* C8 as stated: transmitted <= done + NCCL_STEPS for every sliceSteps.
C8_AsStated ==
  \A s \in SendSubs : ssubs[s].transmitted <= ssubs[s].done + NCCL_STEPS

(***************************************************************************)
(* Properties of the receive state machine.                                *)
(***************************************************************************)
RecvSubs == DOMAIN rsubs

\* C2: on the receive side every sub, alone or in a group, with or without the same
\* nsteps as the rest of its group, has posted >= received >= transmitted >= done in
\* every reachable state.
C2_RecvCursorOrder ==
  \A j \in RecvSubs : /\ rsubs[j].posted >= rsubs[j].received
                      /\ rsubs[j].received >= rsubs[j].transmitted
                      /\ rsubs[j].transmitted >= rsubs[j].done
\* C4: with every sub's nsteps positive (and a multiple of sliceSteps), possibly
\* different inside one group, a cooperating plugin and compute engine, repeated
\* progress calls bring every sub to done = nsteps and the op to state None.
C4_RecvCompletes ==
  (\A j \in RecvSubs : rsubs[j].nsteps > 0)
    => <>(/\ rargs.state = "None"
          /\ \A j \in RecvSubs : rsubs[j].done = rsubs[j].nsteps)
\* An op with a group of two subs of different nsteps has completed.
C4_Witness ==
  /\ rargs.state = "None"
  /\ \E i, j \in RecvSubs : /\ rsubs[i].groupSize = 2 /\ rsubs[j].groupSize = 2
                             /\ rsubs[i].nsteps < rsubs[j].nsteps
  /\ \A j \in RecvSubs : rsubs[j].nsteps > 0 /\ rsubs[j].done = rsubs[j].nsteps

\* A group of two subs with different nsteps, in the middle of its pipeline: the sub
\* with fewer steps is done, its posted beyond its nsteps, while the other has slices
\* posted and slices published that compute has not released.
C2_Witness ==
  \E i, j \in RecvSubs :
    /\ i # j
    /\ rsubs[i].groupSize = 2 /\ rsubs[j].groupSize = 2
    /\ rsubs[i].nsteps < rsubs[j].nsteps
    /\ rsubs[i].done = rsubs[i].nsteps
    /\ rsubs[i].posted > rsubs[i].nsteps
    /\ rsubs[j].posted > rsubs[j].transmitted
    /\ rsubs[j].transmitted > rsubs[j].done

(***************************************************************************)
(* A send op and a receive op paired through the fabric: what sub s of the *)
(* send op hands to isend arrives, in order, in the buffers the receive op *)
(* posts on connection s.  Both ops have the same protocol, sliceSteps and *)
(* slices; each end has its own staging memory.                            *)
(***************************************************************************)
PairPlans ==
  {[comms |-> <<0>>, maxRecvs |-> 1, k |-> <<j>>] : j \in 1 .. MaxSlices}
  \cup {[comms |-> <<0, 0>>, maxRecvs |-> 2, k |-> <<1, 1>>]}

\* The ops of MaxSlices slices, which go round the ring of NCCL_STEPS slots with the
\* larger sliceSteps, are those of the SIMPLE protocol without flush or tail mirror.
PairSliceSteps(pl, protocol) ==
  IF pl.k = <<MaxSlices>> THEN {MaxSliceSteps}
  ELSE IF protocol = NCCL_PROTO_SIMPLE /\ Len(pl.k) = 1 THEN {1, MaxSliceSteps} ELSE {1}

PairRecvModes(pl, sm) ==
  {rm \in RecvModes : /\ rm.protocol = sm.protocol
                      /\ rm.shared = sm.shared
                      /\ ~rm.gdcFlush
                      /\ pl.k = <<MaxSlices>> => ~rm.needFlush /\ ~rm.gdcSync}

PairSendModes(pl) ==
  {sm \in SendModes : pl.k = <<MaxSlices>> => sm.protocol = NCCL_PROTO_SIMPLE}

InitPair ==
  \E pl \in PairPlans :
    \E sm \in PairSendModes(pl) :
      \E rm \in PairRecvModes(pl, sm), sliceSteps \in PairSliceSteps(pl, sm.protocol) :
        LET n == Len(pl.k)
            ch == [s \in SubIds(n) |-> 0]
        IN /\ InitSendOp(n, sliceSteps, sm, [s \in SubIds(n) |-> pl.k[s + 1]], ch)
           /\ InitRecvOp(pl, sliceSteps, rm, ch)
           /\ wire = [s \in SubIds(n) |-> <<>>]
           /\ NoConns

NextPair == NextSend \/ NextRecv

SpecPair == InitPair /\ [][NextPair]_vars

\* The payloads the sending compute engine has written for sub s, in order: those of
\* the slices it has finished, and that of the slice it is filling once it is in memory.
SendWritten(s) ==
  LET c == scomp[s]
      filling == c.phase = "fill" /\ MemRead(smem, c.loc).pay = <<s, c.step>>
  IN [i \in 1 .. ((c.step \div sargs.sliceSteps) + IF filling THEN 1 ELSE 0) |->
        <<s, (i - 1) * sargs.sliceSteps>>]

\* C5: what the receiving compute engine has read on connection c is, slice by slice,
\* what the sending compute engine wrote for sub c: nothing but what was written, in
\* the order it was written, nothing skipped or read twice.
C5_RoundTrip ==
  \A c \in DOMAIN rcomp :
    /\ c \in DOMAIN scomp
    /\ Len(rcomp[c].read) <= Len(SendWritten(c))
    /\ \A i \in DOMAIN rcomp[c].read : rcomp[c].read[i] = SendWritten(c)[i]

(***************************************************************************)
(* One op, of either direction.                                            *)
(***************************************************************************)
InitOp == InitSend \/ InitRecv

NextOp == NextSend \/ NextRecv

SpecOp == InitOp /\ [][NextOp]_vars

\* The slices in flight (posted and not done) of the subs whose connection uses the
\* shared pool, as <<sub, step>>, and the pool offset each was given when posted.
SendInFlight ==
  UNION {{<<s, step>> : step \in {q \in ssubs[s].done .. (ssubs[s].posted - 1) :
                                     q % sargs.sliceSteps = 0 /\ q < ssubs[s].nsteps}} :
           s \in {x \in SendSubs : sres[x].shared}}

SendOffsetOf(x) == sres[x[1]].offsFifo[(ssubs[x[1]].base + x[2]) % NCCL_STEPS]

RecvInFlight ==
  UNION {{<<j, step>> : step \in {q \in rsubs[j].done .. (rsubs[j].posted - 1) :
                                     q % rargs.sliceSteps = 0 /\ q < rsubs[j].nsteps}} :
           j \in {x \in RecvSubs : /\ rres[rsubs[x].conn].shared
                                    /\ rargs.protocol = NCCL_PROTO_SIMPLE}}

RecvOffsetOf(x) ==
  rres[rsubs[x[1]].conn].offsFifo[(rsubs[x[1]].base + x[2]) % NCCL_STEPS]

\* C9: every slot index a progress call passes to sharedBuffersGet is in
\* 0 .. NCCL_SHARED_STEPS - 1, and no two slices in flight of one op, of whatever subs
\* and channels, have the same offset in the shared pool.
C9_SharedPoolExclusive ==
  /\ \A s \in SendSubs : slog[s].getSlot \in -1 .. (NCCL_SHARED_STEPS - 1)
  /\ \A i \in RecvCalls(rlog, "get") : rlog[i].slot \in 0 .. (NCCL_SHARED_STEPS - 1)
  /\ \A x, y \in SendInFlight : x # y => SendOffsetOf(x) # SendOffsetOf(y)
  /\ \A x, y \in RecvInFlight : x # y => RecvOffsetOf(x) # RecvOffsetOf(y)
\* The last sub of an op of MaxSubs subs has been given the last slot of its channel
\* while another of its slices is still in flight.
C9_Witness ==
  \E s \in SendSubs :
    /\ s = MaxSubs - 1
    /\ slog[s].getSlot = (MaxDepthOf(MaxSubs) * MaxSubs) - 1
    /\ Cardinality({x \in SendInFlight : x[1] = s}) >= 2

(***************************************************************************)
(* The connections that use the shared pool.  The proxy service takes a    *)
(* connection from Initialized either to SharedInitialized, by the         *)
(* transport's proxySharedInit, or to Connected, by its proxyConnect, and  *)
(* frees it once by its proxyFree.  A send connection to another process   *)
(* has its data in device memory (lines 362-365).                          *)
(***************************************************************************)
ConnKinds ==
  {k \in [dir : {0, 1}, localRank : LocalRankIds, shared : BOOLEAN, useGdr : BOOLEAN,
          sameProcess : BOOLEAN] :
     /\ k.sameProcess = (k.localRank = 0)
     /\ k.dir = 0 => k.useGdr \/ k.sameProcess}

NewConn(k) ==
  [dir |-> k.dir, localRank |-> k.localRank, shared |-> k.shared, useGdr |-> k.useGdr,
   sameProcess |-> k.sameProcess, state |-> "Initialized", freed |-> "no"]

InitPool ==
  /\ pool = NoPool
  /\ netComms = NoNetComms
  /\ conns \in [ConnIds -> {NewConn(k) : k \in ConnKinds}]
  /\ NoSendOp
  /\ NoRecvOp
  /\ wire = <<>>

\* Lines 432-437, the same function for both directions (lines 1164-1165).
proxySharedInit(pl, conn) ==
  sharedBuffersInit(pl, TRUE, conn.localRank, 0, conn.sameProcess, P2pnChannels)

\* Lines 500-510 and 549-554 of sendProxyConnect, 635-645 and 684-689 of
\* recvProxyConnect: what a connect whose communicator is there does to the pool.  A
\* receive connection of another process is refused before it reaches the pool (line
\* 676).
ProxyConnectPool(pl, conn) ==
  LET pl1 == IF conn.shared THEN PeerCalloc(pl, conn.localRank) ELSE pl
  IN
  IF conn.dir = 1 /\ ~conn.sameProcess THEN [pool |-> pl1, result |-> "InternalError"]
  ELSE IF ~conn.shared THEN [pool |-> pl, result |-> "Success"]
  ELSE IF conn.dir = 0
  THEN sharedBuffersInit(PeerCalloc(pl, conn.localRank), conn.useGdr, conn.localRank, 0,
                         conn.sameProcess, P2pnChannels)
  ELSE sharedBuffersInit(PeerCalloc(pl, conn.localRank), conn.useGdr, conn.localRank, 1,
                         TRUE, P2pnChannels)

\* Lines 752-789 and 791-824: what freeing a connection does to the pool.
ProxyFreePool(pl, conn) ==
  IF conn.state = "SharedInitialized" \/ (conn.state = "Connected" /\ conn.shared)
  THEN sharedBuffersDestroy(pl, conn.localRank, conn.dir)
  ELSE {[pool |-> pl, result |-> "Success"]}

PoolSharedInit ==
  \E c \in DOMAIN conns :
    /\ conns[c].state = "Initialized"
    /\ \E out \in {proxySharedInit(pool, conns[c])} :
         /\ pool' = out.pool
         /\ conns' = [conns EXCEPT ![c].state = "SharedInitialized"]
    /\ UNCHANGED <<sendVars, recvVars, wire, netComms>>

PoolConnect ==
  \E c \in DOMAIN conns :
    /\ conns[c].state = "Initialized"
    /\ \E out \in {ProxyConnectPool(pool, conns[c])} :
         /\ pool' = out.pool
         /\ conns' = [conns EXCEPT ![c].state = IF out.result = "Success" THEN "Connected"
                                                 ELSE "Failed"]
    /\ UNCHANGED <<sendVars, recvVars, wire, netComms>>

PoolFree ==
  \E c \in DOMAIN conns :
    /\ conns[c].state \in {"Initialized", "SharedInitialized", "Connected", "Failed"}
    /\ \E out \in ProxyFreePool(pool, conns[c]) :
         /\ pool' = out.pool
         /\ conns' = [conns EXCEPT ![c].state = "Freed", ![c].freed = out.result]
    /\ UNCHANGED <<sendVars, recvVars, wire, netComms>>

NextPool ==
  \/ PoolSharedInit
  \/ PoolConnect
  \/ PoolFree

SpecPool == InitPool /\ [][NextPool]_vars

\* The connections that have taken a reference on the pool of localRank in direction
\* dir and not yet given it back.
PoolHolders(localRank, dir) ==
  {c \in DOMAIN conns : /\ conns[c].localRank = localRank
                        /\ conns[c].dir = dir
                        /\ \/ conns[c].state = "SharedInitialized"
                           \/ conns[c].state = "Connected" /\ conns[c].shared}

\* C10: each refcount counts the connections of its local rank and direction that were
\* pre-initialised or connected shared and are not freed yet (one increment and one
\* decrement per connection, never negative), and once none is left in either
\* direction the buffers are freed and the peer record is removed.
C10_RefcountBalance ==
  \A lr \in LocalRankIds :
    LET peer == pool.peer[lr]
    IN /\ peer.send.refcount = Cardinality(PoolHolders(lr, 0))
       /\ peer.recv.refcount = Cardinality(PoolHolders(lr, 1))
       /\ (PoolHolders(lr, 0) = {} /\ PoolHolders(lr, 1) = {})
            => /\ ~peer.present
               /\ peer.send.cudaBuff # "alloc" /\ peer.send.hostBuff # "alloc"
               /\ peer.recv.cudaBuff # "alloc" /\ peer.recv.hostBuff # "alloc"

\* A step in which connection c is freed and its free runs sharedBuffersDestroy past the
\* three argument checks of lines 410-414.
PoolDestroyStep(c) ==
  /\ conns[c].state # "Freed"
  /\ conns'[c].state = "Freed"
  /\ conns[c].state = "SharedInitialized" \/ (conns[c].state = "Connected" /\ conns[c].shared)
  /\ conns'[c].freed # "InternalError"

\* C11: a sharedBuffersDestroy(localRank, direction) that runs takes one from that
\* direction's refcount; a buffer of that direction is freed only when the refcount has
\* reached zero (otherwise both buffers stay as they were, and the other direction's
\* state is never touched); the peer record is removed only when both refcounts are
\* zero; the array of peers is freed only when no peer record is left.
C11_DestroyContract ==
  [][\A c \in DOMAIN conns :
       PoolDestroyStep(c) =>
         LET lr == conns[c].localRank
             type == conns[c].dir
             peer == pool.peer[lr]
             peer2 == pool'.peer[lr]
             before == P2pOfType(peer, type)
             after == P2pOfType(peer2, type)
             other == P2pOfType(peer, 1 - type)
             removed == peer.present /\ ~peer2.present
         IN /\ ~removed => after.refcount = before.refcount - 1
            /\ ~removed => P2pOfType(peer2, 1 - type) = other
            /\ (~removed /\ before.refcount - 1 # 0)
                 => after.cudaBuff = before.cudaBuff /\ after.hostBuff = before.hostBuff
            /\ removed => before.refcount - 1 = 0 /\ other.refcount = 0
            /\ (pool.array /\ ~pool'.array)
                 => removed /\ \A r \in LocalRankIds : ~pool'.peer[r].present
            /\ \A r \in LocalRankIds \ {lr} : pool'.peer[r] = pool.peer[r]]_vars

\* Two shared send connections of one local rank, the first of them destroyed: the
\* refcount is 1 and the buffer is live.
C11_Witness ==
  \E c, d \in DOMAIN conns :
    /\ c # d
    /\ conns[c].dir = 0 /\ conns[d].dir = 0
    /\ conns[c].localRank = conns[d].localRank
    /\ conns[c].shared /\ conns[c].state = "Freed" /\ conns[c].freed = "Success"
    /\ conns[d].shared /\ conns[d].state = "Connected"
    /\ pool.peer[conns[d].localRank].send.refcount = 1
    /\ pool.peer[conns[d].localRank].send.cudaBuff = "alloc"
           \/ pool.peer[conns[d].localRank].send.hostBuff = "alloc"


(***************************************************************************)
(* Properties of the publication of received slices.                       *)
(***************************************************************************)
\* The first sub of the group of the sub at position j of subs.
RecvLeaderOf(subs, j) ==
  LET leaders == RecvLeaders(subs)
  IN CHOOSE s \in {leaders[k] : k \in DOMAIN leaders} :
       s + 1 <= j /\ j <= s + subs[s + 1].groupSize

\* The request of step in the slot it was put in by the first sub of a group.
RecvRequestOf(lead, step) == lead.requests[step % NCCL_STEPS]

\* C12: the tail word of a connection (recvMem->tail, or the GDR-copy mirror) changes
\* only in a step that moves its sub's transmitted over one slice and sets the word to
\* base + transmitted, and only when the irecv of that slice has tested complete
\* (received is past it, and received moves only in a call whose test finds the irecv
\* of the slice complete) and the slot of the slice holds no receive request and
\* either no request at all or the slice's flush request, complete and tested by this
\* call; a flush request of a slice not yet published stays in its slot.
C12_PublishAfterComplete ==
  [][/\ \A c \in DOMAIN rres :
          RecvTailWord(rres'[c]) # RecvTailWord(rres[c]) =>
            /\ rargs.state = "Progress"
            /\ \E j \in DOMAIN rsubs :
                 LET sub == rsubs[j]
                     s == RecvLeaderOf(rsubs, j)
                     lead == rsubs[s + 1]
                     req == RecvRequestOf(lead, lead.transmitted)
                 IN /\ sub.conn = c
                    /\ rsubs'[j].transmitted = sub.transmitted + rargs.sliceSteps
                    /\ RecvTailWord(rres'[c]) = sub.base + rsubs'[j].transmitted
                    /\ lead.received > lead.transmitted
                    /\ req.kind # "recv"
                    /\ req.kind = "flush" =>
                         /\ req.step = lead.transmitted
                         /\ req.st = "comp"
                         /\ \E i \in RecvCalls(rlog', "test") :
                              /\ rlog'[i].sub = s
                              /\ rlog'[i].phase = "transmitted"
                              /\ rlog'[i].req = "comp"
     /\ \A j \in DOMAIN rsubs :
          (rargs.state = "Progress" /\ rsubs'[j].received # rsubs[j].received) =>
            LET s == RecvLeaderOf(rsubs, j)
                lead == rsubs[s + 1]
                req == RecvRequestOf(lead, lead.received)
            IN /\ rsubs'[j].received = rsubs[j].received + rargs.sliceSteps
               /\ req.kind = "recv" /\ req.step = lead.received /\ req.st = "comp"
               /\ \E i \in RecvCalls(rlog', "test") :
                    rlog'[i].sub = s /\ rlog'[i].phase = "received" /\ rlog'[i].req = "comp"
     /\ \A j \in DOMAIN rsubs : \A i \in Slots :
          LET req == rsubs[j].requests[i]
          IN (req.kind = "flush" /\ req.step >= rsubs[j].transmitted) =>
               \/ rsubs'[j].requests[i] = req
               \/ rsubs'[j].requests[i] = [req EXCEPT !.st = "comp"]
               \/ rsubs'[j].transmitted > req.step]_vars

\* A slice published after its flush request completed, with the next slice of the group
\* already received and its flush still pending.
C12_Witness ==
  /\ rargs.state = "Progress"
  /\ \E j \in DOMAIN rsubs :
       LET sub == rsubs[j]
           last == RecvRequestOf(sub, sub.transmitted - rargs.sliceSteps)
           next == RecvRequestOf(sub, sub.transmitted)
       IN /\ sub.transmitted > 0 /\ sub.received > sub.transmitted
          /\ last.kind = "flush" /\ last.st = "comp"
          /\ last.step = sub.transmitted - rargs.sliceSteps
          /\ next.kind = "flush" /\ next.st = "pend"
          /\ RecvTailWord(rres[sub.conn]) = sub.base + sub.transmitted

\* C13: every iflush is handed the buffers of the irecv whose completion it follows:
\* the same members in the same order, each with the pointer the irecv was given and
\* the size its test reported.
C13_FlushSameBuffers ==
  \A i \in RecvCalls(rlog, "iflush") : rlog[i].parts = rlog[i].recv


(***************************************************************************)
(* The grouping of the subs of a receive op.  The ops are those of up to   *)
(* MaxGroupSubs subs on shared connections, over up to MaxRecvComms fabric *)
(* comms in every order, of which the sub enqueued first or the one        *)
(* enqueued last has a slice to receive; connections share a fabric comm   *)
(* only when the plugin receives several buffers at once (line 647).       *)
(***************************************************************************)
GroupPlans ==
  {pl \in UNION {[comms : [1 .. n -> 0 .. (MaxRecvComms - 1)], maxRecvs : 1 .. MaxRecvComms,
                  k : {[s \in 1 .. n |-> IF s = b THEN 1 ELSE 0] : b \in {1, n}}] :
                   n \in 1 .. MaxGroupSubs} :
     /\ pl.comms[1] = 0
     /\ pl.maxRecvs = 1 => \A i, j \in DOMAIN pl.comms : pl.comms[i] = pl.comms[j] => i = j}

GroupMode ==
  [protocol |-> NCCL_PROTO_SIMPLE, shared |-> TRUE, gdcSync |-> FALSE,
   useGdr |-> TRUE, needFlush |-> TRUE, gdcFlush |-> FALSE]

InitGroup ==
  /\ \E pl \in GroupPlans :
       /\ InitRecvOp(pl, 1, GroupMode, [s \in SubIds(Len(pl.k)) |-> 0])
       /\ wire = [c \in SubIds(Len(pl.k)) |->
                    RemoteSends(GroupMode.protocol, c, pl.k[c + 1], 1)]
  /\ NoSendOp
  /\ NoConns

SpecGroup == InitGroup /\ [][NextRecv]_vars

\* The fabric comm of the sub at position j, and the positions of the subs on comm.
RecvCommAt(j) == rres[rsubs[j].conn].netRecvComm
RecvOnComm(comm) == {j \in DOMAIN rsubs : RecvCommAt(j) = comm}

\* The subs, as reordered, are the subs enqueued, and they fall into consecutive groups:
\* every member of a group carries the size of the group and uses the fabric comm of
\* the group, and no group is larger than maxRecvs.
RecvGrouped ==
  LET n == Len(rsubs)
  IN /\ {rsubs[j].conn : j \in DOMAIN rsubs} = SubIds(n)
     /\ \A j \in DOMAIN rsubs : rsubs[j].nsteps = rcomp[rsubs[j].conn].nsteps
     /\ \E L \in SUBSET SubIds(n) :
          /\ 0 \in L
          /\ \A s \in L :
               LET g == rsubs[s + 1].groupSize
               IN /\ g >= 1 /\ s + g <= n
                  /\ g <= rres[rsubs[s + 1].conn].maxRecvs
                  /\ \A i \in 1 .. (g - 1) : /\ s + i \notin L
                                            /\ rsubs[s + i + 1].groupSize = g
                                            /\ RecvCommAt(s + i + 1) = RecvCommAt(s + 1)
                  /\ s + g = n \/ s + g \in L

SeqModes ==
  {m \in SendModes : ~m.shared /\ ~m.useGdr
                     /\ m.protocol \in {NCCL_PROTO_SIMPLE, NCCL_PROTO_LL}}
SeqSizes == {P2pChunkSize, StepSize, 2 * StepSize}

InitSendSeq ==
  /\ \E mode \in SeqModes, k \in 1 .. 2, sliceSteps \in 1 .. 2,
        nbytes \in SeqSizes, size \in SeqSizes :
       /\ size <= StepSize * sliceSteps
       /\ sargs = [state |-> "Ready", nsubs |-> 1, sliceSteps |-> sliceSteps,
                   chunkSteps |-> sliceSteps, protocol |-> mode.protocol, done |-> 0,
                   idle |-> 1]
       /\ ssubs = [s \in SubIds(1) |-> InitSendSub(k * sliceSteps, nbytes, 0)]
       /\ sres = [s \in SubIds(1) |-> InitSendRes(mode)]
       /\ scomp = [s \in SubIds(1) |-> InitSendComp(k * sliceSteps, size)]
  /\ smem = <<>>
  /\ slog = [s \in SubIds(1) |-> NoLog]
  /\ wire = [s \in SubIds(1) |-> <<>>]
  /\ NoRecvOp
  /\ NoConns

\* The proxy service enqueues the op again once it has completed.
SendEnqueue ==
  /\ sargs.state = "None"
  /\ \A s \in DOMAIN ssubs : sres[s].step < MaxOps * ssubs[s].nsteps
  /\ sargs' = [sargs EXCEPT !.state = "Ready", !.done = 0]
  /\ UNCHANGED <<ssubs, sres, smem, scomp, slog, wire>>
  /\ UNCHANGED <<recvVars, poolVars>>

\* The compute engine starts on the next op.
SendComputeNext ==
  \E s \in DOMAIN ssubs :
    LET c == scomp[s]
        first == ROUNDUP(c.step, sargs.chunkSteps)
    IN /\ c.phase = "wait"
       /\ c.step = c.last
       /\ c.last < MaxOps * ssubs[s].nsteps
       /\ scomp' = [scomp EXCEPT ![s].step = first, ![s].last = first + ssubs[s].nsteps]
       /\ UNCHANGED <<sargs, ssubs, sres, smem, slog, wire>>
       /\ UNCHANGED <<recvVars, poolVars>>

NextSendSeq ==
  \/ NextSend
  \/ SendEnqueue
  \/ SendComputeNext

SpecSendSeq == InitSendSeq /\ [][NextSendSeq]_vars

\* The step of the slice sub s offered to isend in the last call of sendProxyProgress.
SendOfferedStep(s) ==
  ssubs[s].base + ssubs[s].transmitted
    - IF slog[s].isend = "ok" THEN sargs.sliceSteps ELSE 0

\* C15: with the LL protocol, after a call of sendProxyProgress that offered a slice to
\* isend, the size read from sizesFifo is not -1 and each of the DIVUP(size, 16) lines
\* of the slice has flag1 and flag2 equal to NCCL_LL_FLAG(base + transmitted + 1), as
\* they had when the call was made; transmitted moves only in a call whose isend was
\* answered with a request; and the fabric has been handed each slice once, in order.
C15_LLFlagsBeforeIsend ==
  /\ [](\A s \in DOMAIN ssubs :
          (sargs.protocol = NCCL_PROTO_LL /\ slog[s].isend # "none") =>
            LET size == slog[s].isendSize
                content == MemRead(smem, slog[s].isendLoc)
                flag == NCCL_LL_FLAG(SendOfferedStep(s) + 1)
            IN /\ size # -1
               /\ \A i \in 1 .. DIVUP(size, LLFifoLineBytes) :
                    FlagAt(content.f1, i) = flag /\ FlagAt(content.f2, i) = flag)
  /\ [](\A s \in DOMAIN ssubs :
          sargs.protocol = NCCL_PROTO_LL =>
            \A i, j \in DOMAIN wire[s] : i < j => wire[s][i].step < wire[s][j].step)
  /\ [][\A s \in DOMAIN ssubs :
          (sargs.protocol = NCCL_PROTO_LL /\ sargs.state = "Progress"
             /\ ssubs'[s].transmitted # ssubs[s].transmitted) =>
            /\ slog'[s].isend = "ok"
            /\ ssubs'[s].transmitted = ssubs[s].transmitted + sargs.sliceSteps
            /\ wire'[s] = Append(wire[s], Msg(ssubs[s].base + ssubs[s].transmitted,
                                              slog'[s].isendLoc, slog'[s].isendSize))]_vars

\* A slice of two lines of the second op has been handed to isend.
C15_Witness ==
  \E s \in DOMAIN ssubs :
    /\ sargs.protocol = NCCL_PROTO_LL
    /\ slog[s].isend = "ok"
    /\ slog[s].isendSize = 2 * LLFifoLineBytes
    /\ ssubs[s].base > 0

(***************************************************************************)
(* The send machine with a plugin that has no room: every ncclNetIsend is  *)
(* answered with a null request.  The compute engine goes on filling the   *)
(* slices it has credit for.                                               *)
(***************************************************************************)
SendProgressRefused ==
  /\ \E accepted \in {{}} : SendProgressWith(accepted)
  /\ UNCHANGED <<recvVars, poolVars>>

NextSendRefused ==
  \/ SendProgressRefused
  \/ SendComputeReserve
  \/ SendComputeWriteFlag
  \/ SendComputePost

SpecSendRefused == InitSend /\ [][NextSendRefused]_vars

\* C16: while the plugin answers every isend with a null request, transmitted and done
\* of every sub stay at 0 and nothing is on the wire; no sizesFifo entry that holds a
\* size is reset to -1; every call of sendProxyProgress returns to the proxy thread with
\* the op still in progress; and a slice that was offered to isend is offered again, the
\* same slot, buffer and size, by every call that follows.
C16_NullIsendNoProgress ==
  /\ [](\A s \in DOMAIN ssubs :
          /\ ssubs[s].transmitted = 0 /\ ssubs[s].done = 0
          /\ wire[s] = <<>>
          /\ \A i \in Slots : ssubs[s].requests[i] = NullReq
          /\ slog[s].isend # "ok" /\ slog[s].test = "none")
  /\ [](sargs.state # "None" /\ sargs.done = 0)
  /\ [][\A s \in DOMAIN ssubs :
          /\ \A i \in Slots : sres[s].sizesFifo[i] # -1 => sres'[s].sizesFifo[i] = sres[s].sizesFifo[i]
          /\ slog[s].isend = "null" =>
               /\ slog'[s].isend = "null"
               /\ slog'[s].isendSlot = slog[s].isendSlot
               /\ slog'[s].isendLoc = slog[s].isendLoc
               /\ slog'[s].isendSize = slog[s].isendSize
               /\ sres'[s].sizesFifo[slog[s].isendSlot] = slog[s].isendSize]_vars

\* The first slice of a sub has been refused while the compute engine has filled the
\* slices after it, as far as its credit goes.
C16_Witness ==
  \E s \in DOMAIN ssubs :
    /\ slog[s].isend = "null"
    /\ slog[s].isendSlot = 0
    /\ scomp[s].step = MaxSlices
    /\ \A i \in 0 .. (MaxSlices - 1) : sres[s].sizesFifo[i] # -1

\* The stepSize of sub s: a step of the buffer of the op's protocol (line 849).
SendStepSize(s) == sres[s].buffSizes[sargs.protocol] \div NCCL_STEPS

\* C17: the size handed to isend is the size the compute engine wrote to sizesFifo for
\* the slot of the slice, whatever nbytes is; with nbytes smaller than stepSize it is
\* nbytes when that is what sizesFifo held.  The message on the wire has that size.
C17_IsendSizeFromFifo ==
  \A s \in DOMAIN ssubs :
    /\ slog[s].isend # "none" => slog[s].isendSize = SendComputeSize(scomp[s])
    /\ (slog[s].isend # "none" /\ ssubs[s].nbytes < SendStepSize(s)
          /\ SendComputeSize(scomp[s]) = ssubs[s].nbytes)
         => slog[s].isendSize = ssubs[s].nbytes
    /\ \A i \in DOMAIN wire[s] : wire[s][i].size = SendComputeSize(scomp[s])

\* A sub whose nbytes is smaller than stepSize has had a slice accepted by isend.
C17_Witness ==
  \E s \in DOMAIN ssubs :
    /\ ssubs[s].nbytes < SendStepSize(s)
    /\ slog[s].isend = "ok"
    /\ slog[s].isendSize = ssubs[s].nbytes
    /\ wire[s] # <<>>

\* C17 as stated: with nbytes smaller than stepSize the size handed to isend is nbytes.
C17_AsStated ==
  \A s \in DOMAIN ssubs :
    (slog[s].isend # "none" /\ ssubs[s].nbytes < SendStepSize(s))
      => slog[s].isendSize = ssubs[s].nbytes

\* C18: on a dedicated (non-shared) connection, once a completion has been reaped the
\* head word the compute engine reads (sendMem->head, or the GDR-copy mirror when
\* present) is base + done, so base + nsteps when the sub has completed, where
\* resources->step is base + nsteps too; and the isends accepted for the op are one per
\* slice: with the ops before it they make (base + transmitted) / sliceSteps messages,
\* one for every sliceSteps-th step from 0, in order.
C18_HeadFollowsDone ==
  \A s \in DOMAIN ssubs :
    ~sres[s].shared =>
      /\ ssubs[s].done > 0 => SendHeadWord(sres[s]) = ssubs[s].base + ssubs[s].done
      /\ (ssubs[s].done > 0 /\ ssubs[s].done = ssubs[s].nsteps) =>
           /\ SendHeadWord(sres[s]) = ssubs[s].base + ssubs[s].nsteps
           /\ sres[s].step = ssubs[s].base + ssubs[s].nsteps
           /\ ssubs[s].transmitted = ssubs[s].nsteps
      /\ (ssubs[s].posted > 0 \/ sargs.state = "Progress") =>
           /\ Len(wire[s]) * sargs.sliceSteps = ssubs[s].base + ssubs[s].transmitted
           /\ \A i \in DOMAIN wire[s] : wire[s][i].step = (i - 1) * sargs.sliceSteps

\* The second op of nsteps 2 with sliceSteps 2 has completed on a connection with the
\* head mirror: one isend for each op, done is 2 and the mirror holds base + 2.
C18_Witness ==
  \E s \in DOMAIN ssubs :
    /\ ~sres[s].shared /\ sres[s].gdcSync
    /\ sargs.sliceSteps = 2 /\ ssubs[s].nsteps = 2
    /\ ssubs[s].base = 2 /\ ssubs[s].done = 2
    /\ sres[s].gdcWord = 4
    /\ Len(wire[s]) = 2
    /\ sargs.state = "None"

\* ---------------------------------------------------------------------------------
\* sendProxyConnect and recvProxyConnect as the proxy service drives them: a call whose
\* communicator is not there yet answers done = 0 and is made again.

ConnectIds == 1 .. MaxConnects

\* What setup left in the resources of a connection.  sharedComms is
\* maxRecvs > 1 && ncclParamNetSharedComms() (lines 511, 646), key the (netDev, rank,
\* channelId) the shared comm is kept under.
ConnectKinds ==
  {k \in [dir : {0, 1}, localRank : LocalRankIds, shared : BOOLEAN, useGdr : BOOLEAN,
          sameProcess : BOOLEAN, sharedComms : BOOLEAN, key : CommKeys] :
     /\ k.sameProcess = (k.localRank = 0)
     /\ k.sharedComms => k.shared
     /\ ~k.sharedComms => k.key = 0}

\* The resources before the first connect call: no communicator, the listen comm of a
\* receiver open, no bank map and no host memory yet.
NewConnect(k) ==
  [dir |-> k.dir, localRank |-> k.localRank, shared |-> k.shared, useGdr |-> k.useGdr,
   sameProcess |-> k.sameProcess, sharedComms |-> k.sharedComms, key |-> k.key,
   state |-> "Initialized", freed |-> "no",
   netComm |-> "null", listen |-> IF k.dir = 1 THEN "open" ELSE "none",
   map |-> "none", head |-> 0, sizesFifo |-> [i \in 0 .. (NCCL_STEPS - 1) |-> 0],
   mhandles |-> {}, hostMem |-> "null", devMem |-> "null", gdcMem |-> "null",
   poolRef |-> "none", commRef |-> "none", resources |-> "alloc",
   nulls |-> 0, done |-> 0, result |-> "Success"]

InitConnect ==
  /\ pool = NoPool
  /\ netComms = NoNetComms
  /\ conns \in [ConnectIds -> {NewConnect(k) : k \in ConnectKinds}]
  /\ NoSendOp
  /\ NoRecvOp
  /\ wire = <<>>

CommRefAlways(netComm, count) == count + 1

\* Lines 520 and 655: a shared comm is counted once it is there.
CommRef(netComm, count) == IF netComm # "null" THEN count + 1 ELSE count

SendHeadInitZero(shared) == 0

\* Line 601.
SendHeadInit(shared) == IF shared THEN -NCCL_STEPS ELSE 0

\* Lines 511-525 and 646-660: the communicator of the call.  got is the plugin's answer,
\* asked for only when no shared comm is there already.
ConnectComm(nc, conn, got) ==
  LET fresh == IF got THEN "comm" ELSE "null"
      comms == nc[conn.key]
  IN IF ~(conn.shared /\ conn.sharedComms) THEN [netComms |-> nc, netComm |-> fresh]
     ELSE IF conn.dir = 0
     THEN LET c == IF comms.sendComm = "null" THEN fresh ELSE comms.sendComm
          IN [netComms |-> [nc EXCEPT ![conn.key].sendComm = c,
                                      ![conn.key].sendRefCount = CommRef(c, @)],
              netComm |-> c]
     ELSE LET c == IF comms.recvComm = "null" THEN fresh ELSE comms.recvComm
          IN [netComms |-> [nc EXCEPT ![conn.key].recvComm = c,
                                      ![conn.key].recvRefCount = CommRef(c, @)],
              netComm |-> c]

\* Lines 543-561 and 679-706: the protocols a connection has a buffer for, each of
\* them registered with the fabric (lines 604-621, 727-744).  A shared connection has
\* the pool for SIMPLE; the LL buffers of comm->allocP2pNetLLBuffers are left out.
ConnectBuffers(conn) == IF conn.shared THEN {NCCL_PROTO_SIMPLE} ELSE Protocols

\* Lines 566-591 and 708-723: the banks a connect allocates.  The device bank holds the
\* dedicated buffers of a connection that uses GPUDirect; ncclGdrCopy is taken to be
\* there, so that a connection of the same process has its GDR-copy words.
ConnectBanks(conn) ==
  [conn EXCEPT !.hostMem = "alloc",
               !.devMem = IF ~conn.shared /\ conn.useGdr THEN "alloc" ELSE @,
               !.gdcMem = IF conn.sameProcess THEN "alloc" ELSE @,
               !.mhandles = ConnectBuffers(conn),
               !.poolRef = IF conn.shared THEN "held" ELSE @,
               !.commRef = IF conn.shared /\ conn.sharedComms THEN "held" ELSE @]

\* Lines 709-726: the host memory of a receiver comes zeroed from ncclCudaHostCalloc and
\* recvProxyConnect writes none of its words.  Lines 597-602: the sender writes head and
\* sizesFifo.
ConnectMem(conn) ==
  IF conn.dir = 0
  THEN [ConnectBanks(conn) EXCEPT !.map = "built", !.head = SendHeadInit(conn.shared),
                                  !.sizesFifo = [i \in 0 .. (NCCL_STEPS - 1) |-> -1]]
  ELSE [ConnectBanks(conn) EXCEPT !.map = "built", !.head = 0,
                                  !.sizesFifo = [i \in 0 .. (NCCL_STEPS - 1) |-> 0]]

\* Lines 496-627 and 629-750, one call.
proxyConnect(pl, nc, conn, got) ==
  LET pl1 == IF conn.shared THEN PeerCalloc(pl, conn.localRank) ELSE pl
      cc == ConnectComm(nc, conn, got)
      conn1 == [conn EXCEPT !.netComm = cc.netComm]
      conn2 == [conn1 EXCEPT !.listen = IF conn.dir = 1 THEN "closed" ELSE @]
      sb == ProxyConnectPool(pl1, conn)
  IN IF cc.netComm = "null"
     THEN [pool |-> pl1, netComms |-> cc.netComms, conn |-> conn1, done |-> 0,
           result |-> "Success"]
     ELSE IF sb.result # "Success"
     THEN [pool |-> sb.pool, netComms |-> cc.netComms, conn |-> conn2, done |-> 1,
           result |-> sb.result]
     ELSE [pool |-> sb.pool, netComms |-> cc.netComms, conn |-> ConnectMem(conn2),
           done |-> 1, result |-> "Success"]

\* The proxy service makes the call on a connection that is not connected yet, and makes
\* it again while the answer is done = 0.
ProxyConnectCall ==
  \E c \in DOMAIN conns, got \in BOOLEAN :
    /\ conns[c].state = "Initialized"
    /\ got \/ conns[c].nulls < MaxNullAnswers
    /\ \E out \in {proxyConnect(pool, netComms, conns[c], got)} :
         /\ pool' = out.pool
         /\ netComms' = out.netComms
         /\ conns' = [conns EXCEPT ![c] =
                        [out.conn EXCEPT
                           !.state = IF out.result # "Success" THEN "Failed"
                                     ELSE IF out.done = 1 THEN "Connected" ELSE @,
                           !.nulls = IF out.done = 0 THEN @ + 1 ELSE @,
                           !.done = out.done,
                           !.result = out.result]]
    /\ UNCHANGED <<sendVars, recvVars, wire>>

SpecConnect == InitConnect /\ [][ProxyConnectCall]_vars

\* C19: once the connect of a sender has completed, sendMem->head is -NCCL_STEPS for a
\* shared and 0 for a dedicated connection and every sizesFifo entry is -1; once the
\* connect of a receiver has completed its head and its sizesFifo entries are the zeroes
\* the memory was allocated with.
C19_ConnectWords ==
  \A c \in DOMAIN conns :
    conns[c].state = "Connected" =>
      IF conns[c].dir = 0
      THEN /\ conns[c].head = (IF conns[c].shared THEN -NCCL_STEPS ELSE 0)
           /\ \A i \in 0 .. (NCCL_STEPS - 1) : conns[c].sizesFifo[i] = -1
      ELSE /\ conns[c].head = 0
           /\ \A i \in 0 .. (NCCL_STEPS - 1) : conns[c].sizesFifo[i] = 0

C19_Witness ==
  \E c, d \in DOMAIN conns :
    /\ conns[c].state = "Connected" /\ conns[c].dir = 0 /\ conns[c].shared
    /\ conns[c].nulls > 0
    /\ conns[d].state = "Connected" /\ conns[d].dir = 1 /\ conns[d].shared

\* C19 as stated: the words are the same after the connect of either side.
C19_AsStated ==
  \A c \in DOMAIN conns :
    conns[c].state = "Connected" =>
      /\ conns[c].head = (IF conns[c].shared THEN -NCCL_STEPS ELSE 0)
      /\ \A i \in 0 .. (NCCL_STEPS - 1) : conns[c].sizesFifo[i] = -1

\* The refcounts a connect call can touch: the pool of each local rank in each direction
\* and the shared comm of each key in each direction.
ConnectRefs(pl, nc) ==
  [p2p |-> [r \in LocalRankIds |-> [t \in {0, 1} |-> P2pOfType(pl.peer[r], t).refcount]],
   comm |-> [k \in CommKeys |->
               [t \in {0, 1} |-> IF t = 0 THEN nc[k].sendRefCount ELSE nc[k].recvRefCount]]]

\* The connections whose connect call found its communicator.
ConnectDone(c) == conns[c].state \in {"Connected", "Failed"}

\* C20: a connect call that finds no communicator answers Success with done = 0 and
\* leaves the pool refcounts, the shared-comm refcounts, the bank map and the listen comm
\* of the receiver as they were; however many such calls came first, each pool refcount
\* counts the shared connections that are connected once and each shared-comm refcount
\* counts the connections that found the comm once.
C20_NullConnectRedriven ==
  /\ [][\A c \in DOMAIN conns :
          conns'[c].nulls # conns[c].nulls =>
            /\ conns'[c].done = 0 /\ conns'[c].result = "Success"
            /\ conns'[c].state = "Initialized"
            /\ ConnectRefs(pool', netComms') = ConnectRefs(pool, netComms)
            /\ conns'[c].map = conns[c].map /\ conns'[c].map = "none"
            /\ conns'[c].listen = conns[c].listen /\ conns'[c].listen # "closed"]_vars
  /\ [](\A r \in LocalRankIds, t \in {0, 1} :
          ConnectRefs(pool, netComms).p2p[r][t] =
            Cardinality({c \in DOMAIN conns :
                           /\ conns[c].state = "Connected" /\ conns[c].shared
                           /\ conns[c].localRank = r /\ conns[c].dir = t}))
  /\ [](\A k \in CommKeys, t \in {0, 1} :
          ConnectRefs(pool, netComms).comm[k][t] =
            Cardinality({c \in DOMAIN conns :
                           /\ ConnectDone(c) /\ conns[c].shared /\ conns[c].sharedComms
                           /\ conns[c].key = k /\ conns[c].dir = t}))

C20_Witness ==
  \E c \in DOMAIN conns :
    /\ conns[c].state = "Connected" /\ conns[c].nulls = MaxNullAnswers
    /\ conns[c].shared /\ conns[c].sharedComms /\ conns[c].dir = 1
    /\ conns[c].listen = "closed" /\ conns[c].map = "built"
    /\ ConnectRefs(pool, netComms).p2p[conns[c].localRank][1] = 1
    /\ ConnectRefs(pool, netComms).comm[conns[c].key][1] = 1

\* C21: sharedBuffersInit with cuda == 0 and sameProcess == 0 answers InternalError and
\* gives back the pool it was given, array, peer records, refcounts, sizes and buffers;
\* a shared send connect that ends in this refusal leaves of the pool what the connect
\* itself had allocated before the call.
C21_InitRefusedChangesNothing ==
  /\ [](\A r \in LocalRankIds, t \in {0, 1} :
          sharedBuffersInit(pool, FALSE, r, t, FALSE, P2pnChannels) =
            [pool |-> pool, result |-> "InternalError"])
  /\ [][\A c \in DOMAIN conns :
          (/\ conns[c].state = "Initialized" /\ conns'[c].state = "Failed"
           /\ conns[c].dir = 0) =>
            /\ conns[c].shared /\ ~conns[c].useGdr /\ ~conns[c].sameProcess
            /\ conns'[c].result = "InternalError"
            /\ pool' = PeerCalloc(pool, conns[c].localRank)
            /\ ConnectRefs(pool', netComms').p2p = ConnectRefs(pool, netComms).p2p]_vars

C21_Witness ==
  \E c, d \in DOMAIN conns :
    /\ conns[c].state = "Failed" /\ conns[c].dir = 0 /\ conns[c].result = "InternalError"
    /\ conns[d].state = "Connected" /\ conns[d].dir = 0 /\ conns[d].shared
    /\ conns[d].localRank = conns[c].localRank
    /\ ConnectRefs(pool, netComms).p2p[conns[c].localRank][0] = 1

\* ---------------------------------------------------------------------------------
\* sendProxyFree and recvProxyFree of a connected connection, step by step.  Every step
\* but the last is a call wrapped in NCCLCHECK or CUDACHECK, which return the error of
\* the call to the caller of the function at once.

ProtoSeq == <<NCCL_PROTO_LL, NCCL_PROTO_LL128, NCCL_PROTO_SIMPLE>>

\* Lines 759-785 and 797-820: the calls of a teardown in the order the code makes them.
FreeSteps(conn) ==
  SelectSeq(ProtoSeq, LAMBDA p : p \in conn.mhandles)
  \o <<"host", "dev">>
  \o (IF conn.gdcMem # "null" THEN <<"gdc">> ELSE <<>>)
  \o (IF conn.shared THEN <<"destroy">> ELSE <<>>)
  \o <<"close">>

\* What one call of the teardown does when it succeeds.  st is [pool, netComms, conn].
FreeStep(st, step) ==
  LET conn == st.conn
      key == conn.key
      count == IF conn.dir = 0 THEN st.netComms[key].sendRefCount
               ELSE st.netComms[key].recvRefCount
      closed == IF count - 1 = 0 THEN "closed" ELSE "comm"
  IN
  IF step \in Protocols THEN [st EXCEPT !.conn.mhandles = @ \ {step}]
  ELSE IF step = "host" THEN [st EXCEPT !.conn.hostMem = "freed"]
  ELSE IF step = "dev" THEN [st EXCEPT !.conn.devMem = IF @ = "alloc" THEN "freed" ELSE @]
  ELSE IF step = "gdc" THEN [st EXCEPT !.conn.gdcMem = "freed"]
  ELSE IF step = "destroy"
  THEN LET out == CHOOSE o \in sharedBuffersDestroy(st.pool, conn.localRank, conn.dir) :
                    o.result = "Success"
       IN [st EXCEPT !.pool = out.pool, !.conn.poolRef = "released"]
  ELSE IF conn.shared /\ conn.sharedComms
  THEN IF conn.dir = 0
       THEN [st EXCEPT !.netComms[key].sendRefCount = @ - 1,
                       !.netComms[key].sendComm = closed,
                       !.conn.commRef = "released",
                       !.conn.netComm = closed]
       ELSE [st EXCEPT !.netComms[key].recvRefCount = @ - 1,
                       !.netComms[key].recvComm = closed,
                       !.conn.commRef = "released",
                       !.conn.netComm = closed]
  ELSE [st EXCEPT !.conn.netComm = "closed"]

\* The steps 1 .. n of the teardown, all of them successful.
RECURSIVE FreeUpTo(_, _, _)
FreeUpTo(st, steps, n) ==
  IF n = 0 THEN st ELSE FreeStep(FreeUpTo(st, steps, n - 1), steps[n])

\* The calls of a teardown that can answer an error: those made to the fabric plugin
\* and to the runtime.  sharedBuffersDestroy answers what its own code says, and a
\* shared comm that other connections still count is not closed (lines 780, 815).
FreeCanFail(st, steps, n) ==
  LET before == FreeUpTo(st, steps, n - 1)
      key == st.conn.key
      count == IF st.conn.dir = 0 THEN before.netComms[key].sendRefCount
               ELSE before.netComms[key].recvRefCount
  IN /\ steps[n] # "destroy"
     /\ steps[n] = "close" /\ st.conn.shared /\ st.conn.sharedComms => count - 1 = 0

\* Lines 752-789 and 791-824, one call.  fail is the step whose call answers an error,
\* 0 when none does: the function returns there, and free(resources) is reached only
\* when it did not.
proxyFree(pl, nc, conn, fail) ==
  LET st == [pool |-> pl, netComms |-> nc, conn |-> conn]
      steps == FreeSteps(conn)
      pre == sharedBuffersDestroy(pl, conn.localRank, conn.dir)
  IN IF conn.state = "SharedInitialized"
     THEN {[pool |-> o.pool, netComms |-> nc, conn |-> conn, result |-> o.result] :
             o \in pre}
     ELSE IF conn.state # "Connected"
     THEN {[pool |-> pl, netComms |-> nc, conn |-> [conn EXCEPT !.resources = "freed"],
            result |-> "Success"]}
     ELSE IF fail = 0
     THEN LET all == FreeUpTo(st, steps, Len(steps))
          IN {[pool |-> all.pool, netComms |-> all.netComms,
               conn |-> [all.conn EXCEPT !.resources = "freed"], result |-> "Success"]}
     ELSE LET part == FreeUpTo(st, steps, fail - 1)
          IN {[pool |-> part.pool, netComms |-> part.netComms, conn |-> part.conn,
               result |-> "Error"]}

\* The proxy service frees a connection once, in whatever state it is.
ProxyFreeCall ==
  \E c \in DOMAIN conns :
    /\ conns[c].state \in {"Initialized", "Connected", "Failed"}
    /\ \E fail \in 0 .. Len(FreeSteps(conns[c])) :
         /\ fail > 0 =>
              /\ conns[c].state = "Connected"
              /\ FreeCanFail([pool |-> pool, netComms |-> netComms, conn |-> conns[c]],
                             FreeSteps(conns[c]), fail)
         /\ \E out \in proxyFree(pool, netComms, conns[c], fail) :
              /\ pool' = out.pool
              /\ netComms' = out.netComms
              /\ conns' = [conns EXCEPT ![c] = [out.conn EXCEPT !.state = "Freed",
                                                                !.freed = out.result]]
    /\ UNCHANGED <<sendVars, recvVars, wire>>

NextFree ==
  \/ ProxyConnectCall
  \/ ProxyFreeCall

SpecFree == InitConnect /\ [][NextFree]_vars

\* What a teardown that made every one of its calls leaves of a connection.
FreeComplete(conn) ==
  /\ conn.mhandles = {}
  /\ conn.hostMem = "freed"
  /\ conn.devMem # "alloc"
  /\ conn.gdcMem # "alloc"
  /\ conn.poolRef # "held"
  /\ conn.commRef # "held"
  /\ conn.netComm # "comm" \/ conn.commRef = "released"

\* C22: the teardown of a connected connection makes every one of its calls, whichever
\* of them answers an error: every buffer is deregistered, the host and the device bank
\* are freed, the pool reference and the shared-comm reference are given back and the
\* fabric comm is closed.
C22_TeardownAttemptsAll ==
  \A c \in DOMAIN conns :
    conns[c].state = "Freed" /\ conns[c].map = "built" => FreeComplete(conns[c])

\* A teardown in which a call answered an error.
C22_TeardownFailed ==
  \E c \in DOMAIN conns :
    /\ conns[c].state = "Freed" /\ conns[c].map = "built" /\ conns[c].freed = "Error"

\* A teardown without error makes every call.
C22_CleanTeardownComplete ==
  \A c \in DOMAIN conns :
    conns[c].state = "Freed" /\ conns[c].map = "built" /\ conns[c].freed = "Success"
      => FreeComplete(conns[c]) /\ conns[c].resources = "freed"

\* ---------------------------------------------------------------------------------
\* The bank map of a connection: struct connectMap, the NCCL_NET_MAP_ macros and the
\* part of sendProxyConnect and recvProxyConnect that builds the map.

NCCL_NET_MAP_HOSTMEM == 0
NCCL_NET_MAP_DEVMEM == 1
NCCL_NET_MAP_SHARED_HOSTMEM == 2
NCCL_NET_MAP_SHARED_DEVMEM == 3
MapBanks == NCCL_NET_MAP_HOSTMEM .. NCCL_NET_MAP_SHARED_DEVMEM

\* Lines 25-28.  An offsets word is a uint32_t, kept here as its three top bits (hi,
\* the word shifted right by 29) and its 29 low bits (lo); the three masks of the top
\* bits are written in the same unit, 0x20000000.
NCCL_NET_MAP_MASK_DEVMEM == 2
NCCL_NET_MAP_MASK_SHARED == 4
NCCL_NET_MAP_MASK_USED == 1
NCCL_NET_MAP_MASK_OFFSET == 536870911

MapWord(hi, lo) == [hi |-> hi, lo |-> lo]

\* word + n in 32 bits, for 0 <= n <= NCCL_NET_MAP_MASK_OFFSET.
MapWordPlus(word, n) ==
  MapWord((word.hi + (word.lo + n) \div (NCCL_NET_MAP_MASK_OFFSET + 1)) % 8,
          (word.lo + n) % (NCCL_NET_MAP_MASK_OFFSET + 1))

\* word & mask != 0 for one of the three masks of the top bits.
MapBit(word, mask) == (word.hi \div mask) % 2 = 1

\* Lines 30-31: offsets.offsetName >> 30.
NCCL_NET_MAP_OFFSET_BANK(word) == word.hi \div 2

\* Lines 33-34: (offsets.offsetName >> 29) == 0.
NCCL_NET_MAP_OFFSET_NULL(word) == word.hi = 0

\* Lines 40-41: (offsets.offsetName & NCCL_NET_MAP_MASK_DEVMEM) != 0.
NCCL_NET_MAP_DEV_MEM(word) == MapBit(word, NCCL_NET_MAP_MASK_DEVMEM)

\* Lines 36-38: offsets.offsetName & NCCL_NET_MAP_MASK_OFFSET.
MapOffset(word) == word.lo

MapNames == {"sendMem", "recvMem"} \cup Protocols

\* A struct connectMap as calloc leaves it: every offsets word and every size 0.
NoMap == [offsets |-> [n \in MapNames |-> MapWord(0, 0)], mems |-> [b \in MapBanks |-> 0]]

Flag(b) == IF b THEN 1 ELSE 0

MapBankBitsUsedOnTop(shared, dev) ==
  MapWord((4 + Flag(shared) * 2 + Flag(dev)) % 8, 0)

\* Line 44: the top bits of the word of a slot.
MapBankBits(shared, dev) ==
  MapWord((NCCL_NET_MAP_MASK_USED + Flag(dev) * NCCL_NET_MAP_MASK_DEVMEM
           + Flag(shared) * NCCL_NET_MAP_MASK_SHARED) % 8, 0)

NCCL_NET_MAP_ADD_POINTER_Fixed(map, shared, dev, memSize, offsetName) ==
  [map EXCEPT !.offsets[offsetName] = MapBankBits(shared, dev)]

\* Lines 43-56.
NCCL_NET_MAP_ADD_POINTER(map, shared, dev, memSize, offsetName) ==
  LET b == IF dev THEN NCCL_NET_MAP_DEVMEM ELSE NCCL_NET_MAP_HOSTMEM
  IN IF ~shared
     THEN [map EXCEPT !.offsets[offsetName] =
                        MapWordPlus(MapBankBits(shared, dev), map.mems[b]),
                      !.mems[b] = @ + memSize]
     ELSE [map EXCEPT !.offsets[offsetName] = MapBankBits(shared, dev)]

\* ALIGN_SIZE(size, align) of line 571.
ALIGN_SIZE(size, align) == ((size + align - 1) \div align) * align

\* The sizes of the model: the buffers of the protocols, struct ncclSendMem and struct
\* ncclRecvMem, the shared pool, and the granularity of an exported device allocation.
MapSizeSmall == 3
MapSizeLarge == 8
SendMemBytes == 4
RecvMemBytes == 5
CUDA_IPC_MIN == 8
MapBuffSizes == [Protocols -> {MapSizeSmall, MapSizeLarge}]

\* What the map of a connection is built from: the resources of the connection,
\* comm->buffSizes and comm->allocP2pNetLLBuffers.
MapKinds ==
  {k \in [dir : {0, 1}, shared : BOOLEAN, useGdr : BOOLEAN, sameProcess : BOOLEAN,
          allocP2pNetLLBuffers : BOOLEAN, buffSizes : MapBuffSizes] :
     /\ k.dir = 1 => k.sameProcess
     /\ k.shared /\ ~k.useGdr => k.sameProcess}

Add(shared, dev, memSize, offsetName) ==
  [shared |-> shared, dev |-> dev, memSize |-> memSize, offsetName |-> offsetName]

\* Lines 543-564 and 679-701: the slots a connect adds, in the order it adds them.
\* poolSize is the size sharedBuffersInit answered.
ConnectAdds(k, poolSize) ==
  LET ll == Add(FALSE, FALSE, k.buffSizes[NCCL_PROTO_LL], NCCL_PROTO_LL)
      mem == <<Add(FALSE, FALSE, SendMemBytes, "sendMem"),
               Add(FALSE, FALSE, RecvMemBytes, "recvMem")>>
      alias == Add(TRUE, k.useGdr, poolSize, NCCL_PROTO_SIMPLE)
      opt == IF k.allocP2pNetLLBuffers THEN <<ll>> ELSE <<>>
      dedicated(p) == Add(FALSE,
                          IF k.dir = 0 THEN p # NCCL_PROTO_LL /\ k.useGdr ELSE k.useGdr,
                          k.buffSizes[p], p)
      all == [i \in 1 .. 3 |-> dedicated(ProtoSeq[i])]
  IN IF k.dir = 0
     THEN (IF ~k.shared THEN all ELSE opt \o <<alias>>) \o mem
     ELSE (IF ~k.shared THEN all ELSE <<alias>>) \o mem \o opt

\* Lines 566-574: the device bank of a dedicated send connection of another process is
\* rounded up before it is allocated.  The host bank is allocated with the size the map
\* has (lines 580-585, 709).
ConnectAlloc(k, map) ==
  IF k.dir = 0 /\ map.mems[NCCL_NET_MAP_DEVMEM] # 0 /\ ~k.shared /\ ~k.sameProcess
  THEN [map EXCEPT !.mems[NCCL_NET_MAP_DEVMEM] = ALIGN_SIZE(@, CUDA_IPC_MIN)]
  ELSE map

\* One connection whose map is being built: kind, the map, the adds made so far with
\* the word each of them wrote, and whether the banks are allocated.
InitMap ==
  /\ pool = NoPool
  /\ netComms = NoNetComms
  /\ conns \in [{1} -> {[kind |-> k, cmap |-> NoMap, added |-> <<>>, allocated |-> FALSE,
                         state |-> "Initialized"] : k \in MapKinds}]
  /\ NoSendOp
  /\ NoRecvOp
  /\ wire = <<>>

MapPoolSize == P2pnChannels * NCCL_SHARED_STEPS * P2pChunkSize

MapAdd ==
  /\ ~conns[1].allocated
  /\ Len(conns[1].added) < Len(ConnectAdds(conns[1].kind, MapPoolSize))
  /\ LET a == ConnectAdds(conns[1].kind, MapPoolSize)[Len(conns[1].added) + 1]
         m == NCCL_NET_MAP_ADD_POINTER(conns[1].cmap, a.shared, a.dev, a.memSize,
                                       a.offsetName)
     IN conns' = [conns EXCEPT ![1].cmap = m,
                               ![1].added = Append(@, [add |-> a,
                                                      word |-> m.offsets[a.offsetName]])]
  /\ UNCHANGED <<sendVars, recvVars, wire, pool, netComms>>

MapAlloc ==
  /\ ~conns[1].allocated
  /\ Len(conns[1].added) = Len(ConnectAdds(conns[1].kind, MapPoolSize))
  /\ conns' = [conns EXCEPT ![1].cmap = ConnectAlloc(conns[1].kind, @),
                            ![1].allocated = TRUE, ![1].state = "Connected"]
  /\ UNCHANGED <<sendVars, recvVars, wire, pool, netComms>>

NextMap ==
  \/ MapAdd
  \/ MapAlloc

SpecMap == InitMap /\ [][NextMap]_vars

\* The adds made so far to the dedicated bank b, in the order they were made.
MapAddsTo(b) ==
  SelectSeq(conns[1].added,
            LAMBDA e : ~e.add.shared /\ (IF e.add.dev THEN NCCL_NET_MAP_DEVMEM
                                         ELSE NCCL_NET_MAP_HOSTMEM) = b)

RECURSIVE MapSum(_)
MapSum(adds) == IF adds = <<>> THEN 0 ELSE adds[1].add.memSize + MapSum(Tail(adds))

MapDisjointIncreasing(b) ==
  LET adds == MapAddsTo(b)
  IN \A i, j \in DOMAIN adds :
       i < j => MapOffset(adds[i].word) + adds[i].add.memSize <= MapOffset(adds[j].word)

\* The connections whose device bank is rounded up.
MapExported == 
  /\ conns[1].allocated /\ conns[1].kind.dir = 0
  /\ ~conns[1].kind.shared /\ ~conns[1].kind.sameProcess

\* C23: whatever slots have been added to the host and to the device bank, their
\* ranges are disjoint and their offsets increase in the order of the adds, and the size
\* of the bank is the sum of the sizes added; once the banks are allocated, the device
\* bank of a dedicated send connection of another process has that sum rounded up to
\* CUDA_IPC_MIN.
C23_BankLayout ==
  \A b \in {NCCL_NET_MAP_HOSTMEM, NCCL_NET_MAP_DEVMEM} :
    /\ MapDisjointIncreasing(b)
    /\ conns[1].cmap.mems[b] =
         IF MapExported /\ b = NCCL_NET_MAP_DEVMEM
         THEN ALIGN_SIZE(MapSum(MapAddsTo(b)), CUDA_IPC_MIN)
         ELSE MapSum(MapAddsTo(b))

C23_Witness ==
  /\ MapExported
  /\ Len(MapAddsTo(NCCL_NET_MAP_DEVMEM)) = 2
  /\ Len(MapAddsTo(NCCL_NET_MAP_HOSTMEM)) = 3
  /\ conns[1].cmap.mems[NCCL_NET_MAP_DEVMEM] # MapSum(MapAddsTo(NCCL_NET_MAP_DEVMEM))

\* C23 as stated: the size of a bank is the sum of the sizes added, for the connections
\* of the same and of another process alike.
C23_AsStated ==
  \A b \in {NCCL_NET_MAP_HOSTMEM, NCCL_NET_MAP_DEVMEM} :
    /\ MapDisjointIncreasing(b)
    /\ conns[1].cmap.mems[b] = MapSum(MapAddsTo(b))

\* The bank the code keeps a slot in: mems[NCCL_NET_MAP_OFFSET_BANK] of lines 36-38.
MapBankOf(shared, dev) ==
  IF shared THEN (IF dev THEN NCCL_NET_MAP_SHARED_DEVMEM ELSE NCCL_NET_MAP_SHARED_HOSTMEM)
  ELSE (IF dev THEN NCCL_NET_MAP_DEVMEM ELSE NCCL_NET_MAP_HOSTMEM)

\* The last add made to each slot name, if any.
MapLastAdd(n) ==
  LET is == {i \in DOMAIN conns[1].added : conns[1].added[i].add.offsetName = n}
  IN IF is = {} THEN 0 ELSE CHOOSE i \in is : \A j \in is : j <= i

StartSteps == 0 .. MaxStartStep

InitSendStepped ==
  /\ \E mode \in SeqModes, k \in 1 .. 2, sliceSteps \in 1 .. 2, chunks \in 1 .. 2,
        step \in StartSteps :
       LET base == ROUNDUP(step, chunks * sliceSteps)
       IN /\ sargs = [state |-> "Ready", nsubs |-> 1, sliceSteps |-> sliceSteps,
                      chunkSteps |-> chunks * sliceSteps, protocol |-> mode.protocol,
                      done |-> 0, idle |-> 1]
          /\ ssubs = [s \in SubIds(1) |->
                        InitSendSub(k * sliceSteps, StepSize * sliceSteps, 0)]
          /\ sres = [s \in SubIds(1) |->
                       [InitSendRes(mode) EXCEPT !.step = step, !.head = step,
                                                 !.tail = step]]
          /\ scomp = [s \in SubIds(1) |->
                        [InitSendComp(k * sliceSteps, StepSize * sliceSteps)
                           EXCEPT !.step = base, !.last = base + k * sliceSteps]]
  /\ smem = <<>>
  /\ slog = [s \in SubIds(1) |-> NoLog]
  /\ wire = [s \in SubIds(1) |-> <<>>]
  /\ NoRecvOp
  /\ NoConns

SteppedMode ==
  [protocol |-> NCCL_PROTO_SIMPLE, shared |-> FALSE, gdcSync |-> FALSE,
   useGdr |-> FALSE, needFlush |-> FALSE, gdcFlush |-> FALSE]

InitRecvStepped ==
  /\ \E n \in 1 .. 2, k \in 1 .. 2, sliceSteps \in 1 .. 2, chunks \in 1 .. 2 :
     \E step \in [SubIds(n) -> StartSteps] :
       /\ rargs = [state |-> "Ready", nsubs |-> n, sliceSteps |-> sliceSteps,
                   chunkSteps |-> chunks * sliceSteps, protocol |-> NCCL_PROTO_SIMPLE,
                   done |-> 0, idle |-> 1]
       /\ rsubs = [j \in 1 .. n |->
                     InitRecvSub(j - 1, k * sliceSteps, StepSize * sliceSteps, 0)]
       /\ rres = [c \in SubIds(n) |->
                    [InitRecvRes(SteppedMode, 0, 2) EXCEPT !.step = step[c],
                                                           !.head = step[c],
                                                           !.tail = step[c]]]
       /\ rcomp = [c \in SubIds(n) |->
                     LET base == ROUNDUP(step[c], chunks * sliceSteps)
                     IN [InitRecvComp(base + k * sliceSteps) EXCEPT !.step = base]]
       /\ wire = [c \in SubIds(n) |-> RemoteSends(NCCL_PROTO_SIMPLE, c, k, sliceSteps)]
  /\ rmem = <<>>
  /\ rlog = <<>>
  /\ NoSendOp
  /\ NoConns

InitStepped == InitSendStepped \/ InitRecvStepped

SpecStepped == InitStepped /\ [][NextOp]_vars

FusePlans ==
  {[comms |-> [s \in 1 .. FuseSubs |-> 0], maxRecvs |-> m,
    k |-> [s \in 1 .. FuseSubs |-> IF s = 1 THEN x[1] ELSE IF s = 2 THEN x[2] ELSE 1]] :
      m \in {2, FuseSubs}, x \in {<<MaxSlices, MaxSlices>>, <<MaxSlices, 1>>, <<1, MaxSlices>>}}

InitFuse ==
  /\ \E pl \in FusePlans :
       /\ InitRecvOp(pl, 1, SteppedMode, [s \in SubIds(Len(pl.k)) |-> 0])
       /\ wire = [c \in SubIds(Len(pl.k)) |->
                    RemoteSends(NCCL_PROTO_SIMPLE, c, pl.k[c + 1], 1)]
  /\ NoSendOp
  /\ NoConns

SpecFuse == InitFuse /\ [][NextRecv]_vars

\* A step of recvProxyProgress: the compute engine does not move and no request
\* completes.
RecvIsCall ==
  /\ rcomp' = rcomp
  /\ \A j \in DOMAIN rsubs, i \in Slots :
       ~(rsubs[j].requests[i].st = "pend" /\ rsubs'[j].requests[i].st = "comp")

\* The members of group s that still have a slice to post, in order, and whether one
\* of them is at its depth.
RecvToPost(subs, s) == {j \in RecvMembers(subs, s) : subs[j].posted < subs[j].nsteps}
RecvAtDepth(subs, s, nsubs) ==
  \E j \in RecvToPost(subs, s) : subs[j].posted >= subs[j].done + MaxDepthOf(nsubs)

\* What Action A does with group s in a call made on subs: irecvs are the irecv calls of
\* the call for the group.
RecvFused(subs, s, irecvs) ==
  LET members == RecvMembers(subs, s)
      toPost == RecvToPost(subs, s)
  IN IF RecvAtDepth(subs, s, rargs.nsubs) \/ toPost = {}
     THEN /\ irecvs = {}
          /\ \A j \in members : rsubs'[j].posted = subs[j].posted
     ELSE /\ Cardinality(irecvs) = 1
          /\ \A i \in irecvs :
               /\ Len(rlog'[i].parts) = Cardinality(toPost)
               /\ {rlog'[i].parts[x].conn : x \in DOMAIN rlog'[i].parts}
                    = {subs[j].conn : j \in toPost}
               /\ \A j \in members :
                    rsubs'[j].posted =
                      subs[j].posted
                        + IF rlog'[i].answer = "ok" THEN rargs.sliceSteps ELSE 0

RecvReleased == {j \in DOMAIN rsubs : rsubs'[j].done > rsubs[j].done}

\* C27: done moves only in a call, by slices the last of which the compute engine has
\* acknowledged (sendMem->head > base + done) and the proxy has committed to the tail
\* (transmitted > done); done never passes transmitted nor nsteps, and a sub whose done
\* is nsteps has left base + nsteps in resources->step.
C27_ReleaseGuarded ==
  /\ [](\A j \in DOMAIN rsubs :
          /\ rsubs[j].done <= rsubs[j].transmitted
          /\ rsubs[j].done <= rsubs[j].nsteps
          /\ (rargs.state # "Ready" /\ rsubs[j].nsteps > 0 /\ rsubs[j].done = rsubs[j].nsteps)
                => rres[rsubs[j].conn].step = rsubs[j].base + rsubs[j].nsteps)
  /\ [][\A j \in RecvReleased :
          LET last == rsubs'[j].done - rargs.sliceSteps
          IN /\ RecvIsCall
             /\ rsubs'[j].transmitted = rsubs[j].transmitted
             /\ rres[rsubs[j].conn].head > rsubs[j].base + last
             /\ rsubs[j].transmitted > last]_vars

\* The compute engine has acknowledged beyond what the proxy committed, and a call
\* released up to the committed slice and no further.
C27_Witness ==
  \E j \in DOMAIN rsubs :
    /\ rargs.state = "Progress" /\ rargs.idle = 0
    /\ RecvCalls(rlog, "irecv") = {} /\ RecvCalls(rlog, "iflush") = {}
    /\ rres[rsubs[j].conn].head > rsubs[j].base + rsubs[j].transmitted
    /\ rsubs[j].done = rsubs[j].transmitted
    /\ rsubs[j].done > 0 /\ rsubs[j].done < rsubs[j].nsteps

\* A sub has released its last slice.
C27_DoneAtNsteps ==
  \E j \in DOMAIN rsubs :
    rargs.state = "None" /\ rsubs[j].nsteps > 0 /\ rsubs[j].done = rsubs[j].nsteps

\* The cursors of the subs, and the words of the connections that the proxy and the
\* compute engine share.
SendCursors(subs) ==
  [s \in DOMAIN subs |-> <<subs[s].posted, subs[s].transmitted, subs[s].done>>]
RecvCursors(subs) ==
  [j \in DOMAIN subs |->
     <<subs[j].posted, subs[j].received, subs[j].transmitted, subs[j].done>>]
SendWords(res) ==
  [c \in DOMAIN res |-> <<res[c].head, res[c].gdcWord, res[c].tail, res[c].sizesFifo>>]
RecvWords(res) == [c \in DOMAIN res |-> <<res[c].head, res[c].gdcWord, res[c].tail>>]
OffsWords(res) == [c \in DOMAIN res |-> res[c].offsFifo]

\* The outcomes of a call made in the current state, one for each answer of the plugin.
SendOutcomes ==
  IF sargs.state = "None" THEN {}
  ELSE {sendProxyProgress(SendState, [s \in DOMAIN ssubs |-> s \in accepted]) :
          accepted \in SUBSET SendTryingSubs}
RecvOutcomes ==
  IF rargs.state = "None" THEN {}
  ELSE {recvProxyProgress(RecvState, acc, flushed) :
          acc \in SUBSET RecvPosting(RecvState), flushed \in BOOLEAN}

\* C28: a call of sendProxyProgress leaves args.idle = 1 exactly when it changed no
\* cursor and no head, tail, offsFifo or sizesFifo word; a call of recvProxyProgress
\* leaves args.idle = 1 exactly when it changed no cursor and no head or tail word, and
\* an offsFifo word that such an idle call changed is that of a slice which Action A
\* offered for a connection with shared buffers and whose posted did not move.
C28_IdleHint ==
  /\ \A st \in SendOutcomes :
       st.args.idle = 1 <=> /\ SendCursors(st.subs) = SendCursors(ssubs)
                            /\ SendWords(st.res) = SendWords(sres)
                            /\ OffsWords(st.res) = OffsWords(sres)
  /\ \A st \in RecvOutcomes :
       /\ st.args.idle = 1 <=> /\ RecvCursors(st.subs) = RecvCursors(rsubs)
                               /\ RecvWords(st.res) = RecvWords(rres)
       /\ (st.args.idle = 1 /\ OffsWords(st.res) # OffsWords(rres))
             => \E i \in RecvCalls(st.log, "get") :
                  LET sub == st.subs[st.log[i].sub + 1]
                  IN /\ st.res[sub.conn].shared
                     /\ sub.posted = rsubs[st.log[i].sub + 1].posted
                     /\ sub.posted < sub.nsteps

\* After a call that left args.idle = 1, a sub that has never posted has an offset in
\* the offsFifo word of its first slot, and the irecv of its group was answered with no
\* request.
C28_Witness ==
  /\ rargs.state = "Progress" /\ rargs.idle = 1
  /\ \E i \in RecvCalls(rlog, "get") :
       LET sub == rsubs[rlog[i].sub + 1]
       IN /\ sub.posted = 0
          /\ rres[sub.conn].offsFifo[sub.base % NCCL_STEPS] # 0
  /\ \E i \in RecvCalls(rlog, "irecv") : rlog[i].answer = "null"

\* The statement with the offsFifo words of the receive side among the words that an
\* idle call leaves alone.
C28_AsStated ==
  \A st \in RecvOutcomes :
    st.args.idle = 1 <=> /\ RecvCursors(st.subs) = RecvCursors(rsubs)
                         /\ RecvWords(st.res) = RecvWords(rres)
                         /\ OffsWords(st.res) = OffsWords(rres)

\* The kinds of cursor (1 posted, 2 received, 3 transmitted, 4 done) that differ
\* between the subs before and after a call.
RecvKindsMoved(before, after) ==
  {k \in 1 .. 4 : \E j \in DOMAIN before : RecvCursors(after)[j][k] # RecvCursors(before)[j][k]}

\* C29: a call of recvProxyProgress moves cursors of one kind at most; a call that
\* moves a posted makes no test and no iflush and writes no tail word, a call that
\* moves a received writes no tail word, and a call moves a cursor of a later kind only
\* if it found nothing to do for the earlier kinds (no irecv answered with a request,
\* no test that moved a received).
C29_OnePhasePerCall ==
  \A st \in RecvOutcomes :
    LET moved == RecvKindsMoved(rsubs, st.subs)
    IN /\ Cardinality(moved) <= 1
       /\ 1 \in moved => /\ RecvCalls(st.log, "test") = {}
                         /\ RecvCalls(st.log, "iflush") = {}
       /\ (1 \in moved \/ 2 \in moved) => RecvWords(st.res) = RecvWords(rres)
       /\ moved # {} => st.args.idle = 0
       /\ (moved \cap {2, 3, 4} # {})
             => \A i \in RecvCalls(st.log, "irecv") : st.log[i].answer = "null"

\* A call has just posted a receive (the irecv was answered with a request) and did
\* nothing else, although a received slice waited to be committed to the tail and an
\* acknowledged slice waited to be released.
C29_Witness ==
  /\ rargs.state = "Progress" /\ rargs.idle = 0
  /\ \E i \in RecvCalls(rlog, "irecv") : rlog[i].answer = "ok"
  /\ RecvCalls(rlog, "test") = {}
  /\ \E j \in DOMAIN rsubs :
       /\ rsubs[j].transmitted > rsubs[j].done
       /\ RecvAcked(rsubs[j], rres[rsubs[j].conn].head)
  /\ \E j \in DOMAIN rsubs : rsubs[j].received > rsubs[j].transmitted

\* By how much a cursor (k-th of the cursors of sub j) moved between two states of the
\* subs.
SendMoved(before, after, s, k) == SendCursors(after)[s][k] - SendCursors(before)[s][k]
RecvMoved(before, after, j, k) == RecvCursors(after)[j][k] - RecvCursors(before)[j][k]

\* C30: in a call of sendProxyProgress each cursor of each sub moves by 0 or by
\* sliceSteps, and at most one cursor of a sub moves; in a call of recvProxyProgress
\* posted, received and transmitted of each sub move by 0 or by sliceSteps, and done
\* moves by a multiple of sliceSteps up to what is both committed to the tail and
\* acknowledged by the compute engine.
C30_StepPerCall ==
  /\ \A st \in SendOutcomes : \A s \in DOMAIN ssubs :
       /\ \A k \in 1 .. 3 : SendMoved(ssubs, st.subs, s, k) \in {0, sargs.sliceSteps}
       /\ Cardinality({k \in 1 .. 3 : SendMoved(ssubs, st.subs, s, k) # 0}) <= 1
  /\ \A st \in RecvOutcomes : \A j \in DOMAIN rsubs :
       /\ \A k \in 1 .. 3 : RecvMoved(rsubs, st.subs, j, k) \in {0, rargs.sliceSteps}
       /\ RecvMoved(rsubs, st.subs, j, 4) >= 0
       /\ RecvMoved(rsubs, st.subs, j, 4) % rargs.sliceSteps = 0
       /\ st.subs[j].done <= rsubs[j].transmitted
       /\ RecvMoved(rsubs, st.subs, j, 4) > 0
             => st.subs[j].base + st.subs[j].done
                  < rres[rsubs[j].conn].head + rargs.sliceSteps

\* A call made in this state releases more than one slice of a sub.
C30_Witness ==
  \E st \in RecvOutcomes : \E j \in DOMAIN rsubs :
    /\ rargs.state = "Progress"
    /\ RecvMoved(rsubs, st.subs, j, 4) > rargs.sliceSteps
    /\ st.args.idle = 0

\* The statement as written: no cursor moves by more than sliceSteps in a call.
C30_AsStated ==
  /\ \A st \in SendOutcomes : \A s \in DOMAIN ssubs :
       \A k \in 1 .. 3 : SendMoved(ssubs, st.subs, s, k) <= sargs.sliceSteps
  /\ \A st \in RecvOutcomes : \A j \in DOMAIN rsubs :
       \A k \in 1 .. 4 : RecvMoved(rsubs, st.subs, j, k) <= rargs.sliceSteps

(***************************************************************************)
(* Send credits.  The steps at which the slices of a sub start, those the  *)
(* head word read by the compute engine lets it fill, and the slices that  *)
(* the proxy has posted and whose isend it has not reaped yet.             *)
(***************************************************************************)
SendSliceStarts(s) ==
  {ssubs[s].base + k * sargs.sliceSteps : k \in 0 .. ((ssubs[s].nsteps \div sargs.sliceSteps) - 1)}
SendReaped(s, t) == t < ssubs[s].base + ssubs[s].done
SendPermitted(s) ==
  {t \in SendSliceStarts(s) : t < SendHeadWord(sres[s]) + NCCL_STEPS /\ ~SendReaped(s, t)}
SendPooled(s) == sargs.protocol = NCCL_PROTO_SIMPLE /\ sres[s].shared
SendHeld ==
  {x \in {<<s, t>> : s \in DOMAIN ssubs, t \in 0 .. (MaxStartStep + MaxSlices * MaxSliceSteps)} :
     /\ x[2] \in SendSliceStarts(x[1])
     /\ ~SendReaped(x[1], x[2])
     /\ x[2] < ssubs[x[1]].base + ssubs[x[1]].posted}

\* The ring entry (sizesFifo, and the slot of the buffer) of step t is free of earlier
\* slices; the pool offset of step t has been assigned and no other slice holds it.
SendSlotFree(s, t) ==
  \A u \in SendSliceStarts(s) : (u < t /\ u % NCCL_STEPS = t % NCCL_STEPS) => SendReaped(s, u)
SendOffsetFree(s, t) ==
  /\ t < ssubs[s].base + ssubs[s].posted
  /\ \A x \in SendHeld \ {<<s, t>>} :
       SendPooled(x[1]) => SendOffsetOf(x) # SendOffsetOf(<<s, t>>)

\* C31: every step the head word lets the compute engine fill has a sizesFifo entry and
\* a staging location (the ring slot, or the pool offset of a shared SIMPLE connection)
\* that no slice with an unreaped isend occupies.
C31_SendCreditSafe ==
  \A s \in DOMAIN ssubs : \A t \in SendPermitted(s) :
    /\ SendSlotFree(s, t)
    /\ SendPooled(s) => SendOffsetFree(s, t)

\* The same on the connections that do not combine shared buffers with the GDR-copy
\* mirror of the head.
SendMirrored(s) == sres[s].shared /\ sres[s].gdcSync
C31_SafeWithoutMirror ==
  \A s \in DOMAIN ssubs : ~SendMirrored(s) =>
    \A t \in SendPermitted(s) :
      /\ SendSlotFree(s, t)
      /\ SendPooled(s) => SendOffsetFree(s, t)

\* The ring has gone round: a permitted step beyond NCCL_STEPS on a connection without
\* the mirror, its slot free of the slice that was there.
C31_RoundTheRing ==
  \E s \in DOMAIN ssubs :
    /\ sargs.state = "Progress" /\ ~SendMirrored(s)
    /\ \E t \in SendPermitted(s) : t >= NCCL_STEPS /\ SendSlotFree(s, t)

(***************************************************************************)
(* Receive ops that come back to a staging location: one sub on dedicated  *)
(* buffers whose MaxSlices slices of MaxSliceSteps steps go round the ring *)
(* of NCCL_STEPS slots, and FuseSubs subs on shared buffers, in groups of  *)
(* two, whose slices go round the MaxDepthOf(FuseSubs) pool slots of each  *)
(* sub, the members of the first group with different numbers of slices.   *)
(***************************************************************************)
PooledMode ==
  [protocol |-> NCCL_PROTO_SIMPLE, shared |-> TRUE, gdcSync |-> FALSE,
   useGdr |-> FALSE, needFlush |-> FALSE, gdcFlush |-> FALSE]

InitOverwrite ==
  /\ \/ \E pl \in {[comms |-> <<0>>, maxRecvs |-> 1, k |-> <<MaxSlices>>]} :
          /\ InitRecvOp(pl, MaxSliceSteps, SteppedMode, [s \in SubIds(1) |-> 0])
          /\ wire = [c \in SubIds(1) |->
                       RemoteSends(NCCL_PROTO_SIMPLE, c, MaxSlices, MaxSliceSteps)]
     \/ \E pl \in {q \in FusePlans : q.maxRecvs = 2 /\ q.k[1] = MaxSlices} :
          /\ InitRecvOp(pl, 1, PooledMode, [s \in SubIds(Len(pl.k)) |-> 0])
          /\ wire = [c \in SubIds(Len(pl.k)) |->
                       RemoteSends(NCCL_PROTO_SIMPLE, c, pl.k[c + 1], 1)]
  /\ NoSendOp
  /\ NoConns

SpecOverwrite == InitOverwrite /\ [][NextRecv]_vars

\* Where the slice at cursor u of sub j (an index into rsubs) is staged: lines 1008-1019.
RecvStaged(j, u) ==
  LET sub == rsubs[j]
      r == rres[sub.conn]
      p == rargs.protocol
  IN IF p = NCCL_PROTO_SIMPLE /\ r.shared
     THEN <<PoolRegion,
            sharedBuffersGet(sub.channelId,
                             (u % MaxDepthOf(rargs.nsubs)) * rargs.nsubs + (j - 1))>>
     ELSE <<sub.conn, ((sub.base + u) % NCCL_STEPS) * (r.buffSizes[p] \div NCCL_STEPS)>>

\* The slices that were posted and that the proxy has not released, as <<sub, cursor>>.
RecvHeld ==
  {x \in {<<j, u>> : j \in DOMAIN rsubs, u \in 0 .. (MaxSlices * MaxSliceSteps)} :
     /\ x[2] % rargs.sliceSteps = 0
     /\ x[2] >= rsubs[x[1]].done
     /\ x[2] < rsubs[x[1]].posted
     /\ x[2] < rsubs[x[1]].nsteps}

\* The slices the irecv at position i of the log of the last call was made for.
RecvOffered(i) ==
  LET e == rlog[i]
      back == IF e.answer = "ok" THEN rargs.sliceSteps ELSE 0
  IN {<<j, rsubs[j].posted - back>> :
        j \in {m \in DOMAIN rsubs : \E k \in DOMAIN e.parts : e.parts[k].conn = rsubs[m].conn}}

\* C32: no buffer handed to an irecv is the staging location of a slice that was posted
\* earlier, for whatever sub, and that the proxy has not released (its step is at or
\* beyond base + done of its sub).
C32_NoOverwrite ==
  rargs.state = "Progress" =>
    \A i \in RecvCalls(rlog, "irecv") :
      /\ \A k \in DOMAIN rlog[i].parts :
           \A x \in RecvHeld \ RecvOffered(i) : RecvStaged(x[1], x[2]) # rlog[i].parts[k].loc
      /\ \A x \in RecvOffered(i) :
           \E k \in DOMAIN rlog[i].parts :
             /\ rlog[i].parts[k].conn = rsubs[x[1]].conn
             /\ rlog[i].parts[k].loc = RecvStaged(x[1], x[2])

\* An accepted irecv was made into the location of an earlier slice of the same sub,
\* which has been released, while a slice posted in between is still held.
C32_Witness ==
  /\ rargs.state = "Progress"
  /\ \E i \in RecvCalls(rlog, "irecv") :
       /\ rlog[i].answer = "ok"
       /\ \E x \in RecvOffered(i) :
            /\ \E u \in 0 .. (x[2] - 1) :
                 u % rargs.sliceSteps = 0 /\ RecvStaged(x[1], u) = RecvStaged(x[1], x[2])
            /\ rsubs[x[1]].done < x[2]

(***************************************************************************)
(* The ops whose slices go round the ring of NCCL_STEPS request entries:   *)
(* the send ops of the model (MaxSlices slices of up to MaxSliceSteps      *)
(* steps) and the receive ops above.                                       *)
(***************************************************************************)
InitRing == InitSend \/ InitOverwrite

SpecRing == InitRing /\ [][NextOp]_vars

\* A request that was handed out by the plugin and that the proxy has not tested
\* complete yet.
SendOutstanding(req) == req.st = "pend" \/ req.st = "comp"
RecvOutstanding(lead, req) == req.st # "null" /\ req.step >= lead.transmitted

\* The state in which the actions of a receive call start (after the Ready step), and
\* the states in which the call can end.
RecvEntered == RecvStart(RecvState)
RecvSliceCursors(from, to) == {u \in from .. (to - 1) : u % rargs.sliceSteps = 0}

\* C33: an isend is given the entry requests[(base + transmitted) % NCCL_STEPS], which
\* holds no request that is still to be reaped, and a send test is made on the entry of
\* step base + done, the oldest request still to be reaped; an irecv is given the
\* entry requests[posted % NCCL_STEPS] of the first sub of its group, which is the entry
\* of none of the steps from transmitted to posted and holds no outstanding request, and
\* a receive test is made on the receive request of step received or on the flush
\* request of step transmitted, the oldest outstanding of its kind.
C33_RequestRing ==
  /\ \A st \in SendOutcomes : \A s \in DOMAIN ssubs :
       LET sub == ssubs[s]
           base == st.subs[s].base
           log == st.log[s]
       IN /\ log.isend # "none" =>
               /\ log.isendSlot = (base + sub.transmitted) % NCCL_STEPS
               /\ ~SendOutstanding(sub.requests[log.isendSlot])
          /\ log.test # "none" =>
               /\ log.testSlot = (base + sub.done) % NCCL_STEPS
               /\ SendOutstanding(sub.requests[log.testSlot])
               /\ sub.requests[log.testSlot].step = base + sub.done
               /\ \A i \in Slots :
                    SendOutstanding(sub.requests[i])
                       => sub.requests[i].step >= base + sub.done
  /\ rargs.state # "None" =>
       \A st \in RecvOutcomes :
         /\ \A i \in RecvCalls(st.log, "irecv") :
              LET lead == RecvEntered.subs[st.log[i].sub + 1]
              IN /\ st.log[i].slot = lead.posted % NCCL_STEPS
                 /\ \A u \in RecvSliceCursors(lead.transmitted, lead.posted) :
                      u % NCCL_STEPS # st.log[i].slot
                 /\ ~RecvOutstanding(lead, lead.requests[st.log[i].slot])
         /\ \A i \in RecvCalls(st.log, "test") :
              LET lead == RecvEntered.subs[st.log[i].sub + 1]
                  step == IF st.log[i].phase = "received" THEN lead.received
                          ELSE lead.transmitted
                  req == lead.requests[st.log[i].slot]
              IN /\ st.log[i].slot = step % NCCL_STEPS
                 /\ req.st # "null" /\ req.step = step
                 /\ req.kind = (IF st.log[i].phase = "received" THEN "recv" ELSE "flush")
                 /\ \A k \in Slots :
                      (RecvOutstanding(lead, lead.requests[k]) /\ lead.requests[k].kind = req.kind)
                         => lead.requests[k].step >= step

\* An entry of the ring holds the request of a step beyond NCCL_STEPS, on a send sub or
\* on the first sub of a receive group, while an earlier request is outstanding.
C33_SendWitness ==
  \E s \in DOMAIN ssubs : \E i, k \in Slots :
    /\ ssubs[s].requests[i].st = "pend" /\ ssubs[s].requests[i].step >= NCCL_STEPS
    /\ SendOutstanding(ssubs[s].requests[k]) /\ ssubs[s].requests[k].step < NCCL_STEPS
C33_RecvWitness ==
  \E j \in DOMAIN rsubs : \E i, k \in Slots :
    /\ rsubs[j].requests[i].st = "pend" /\ rsubs[j].requests[i].kind = "recv"
    /\ rsubs[j].requests[i].step >= NCCL_STEPS
    /\ k # i /\ RecvOutstanding(rsubs[j], rsubs[j].requests[k])
C33_Witness == C33_SendWitness \/ C33_RecvWitness

\* The buffer of the pool that the connect of connection c was handed by
\* sharedBuffersInit (line 391): that of its direction, in device memory or in host
\* memory.
PoolBufferOf(c) ==
  LET state == P2pOfType(pool.peer[conns[c].localRank], conns[c].dir)
  IN IF conns[c].useGdr THEN state.cudaBuff ELSE state.hostBuff

\* C34: while a direction of a local peer has a refcount above zero, the buffer that
\* sharedBuffersInit handed to a connection connected on it is allocated memory.
C34_BufferLive ==
  \A c \in DOMAIN conns :
    (conns[c].state = "Connected" /\ conns[c].shared
       /\ P2pOfType(pool.peer[conns[c].localRank], conns[c].dir).refcount > 0)
      => PoolBufferOf(c) = "alloc"

\* The same while no connection has been freed or pre-initialised.
C34_LiveBeforeFree ==
  (\A d \in DOMAIN conns : conns[d].state \in {"Initialized", "Connected", "Failed"})
    => C34_BufferLive

\* ---------------------------------------------------------------------------------
\* The lifetime of a shared fabric comm (lines 512-523, 647-658, 773-784, 808-816).

\* The connections that took the comm of (key, dir) at their connect and have not given
\* it back: connected with shared comms on that key.
CommUsers(key, dir) ==
  {c \in DOMAIN conns :
     /\ conns[c].state = "Connected" /\ conns[c].shared /\ conns[c].sharedComms
     /\ conns[c].key = key /\ conns[c].dir = dir}

\* The handle and the count the progress state keeps for (key, dir).
CommHandle(key, dir) ==
  IF dir = 0 THEN netComms[key].sendComm ELSE netComms[key].recvComm

CommCount(key, dir) ==
  IF dir = 0 THEN netComms[key].sendRefCount ELSE netComms[key].recvRefCount

\* The refcount of an entry is the number of connected connections that use it.
C35_RefCounted ==
  \A key \in CommKeys, dir \in {0, 1} :
    CommCount(key, dir) = Cardinality(CommUsers(key, dir))

\* A comm that was made is closed in the states where its count is zero, and in no
\* other.
C35_ClosedAtZero ==
  \A key \in CommKeys, dir \in {0, 1} :
    CommHandle(key, dir) # "null" =>
      ((CommHandle(key, dir) = "closed") <=> (CommCount(key, dir) = 0))

\* C35: with shared comms, a connection that is connected never holds a handle that
\* ncclNetCloseSend or ncclNetCloseRecv was called on: a connect that comes after the
\* close of the comm of its (netDev, rank, channelId) gets a newly made comm.
C35_FreshAfterClose ==
  \A c \in DOMAIN conns :
    conns[c].state = "Connected" /\ conns[c].shared /\ conns[c].sharedComms =>
      conns[c].netComm = "comm"

\* The three parts of the shared-comm lifetime together.
C35_CommLifetime == C35_RefCounted /\ C35_ClosedAtZero /\ C35_FreshAfterClose

\* The connections torn down or refused so far.
CommGivenBack == {c \in DOMAIN conns : conns[c].state \in {"Freed", "Failed"}}

\* Up to the first teardown and the first refused connect the three parts hold.
C35_LifetimeBeforeFree == (CommGivenBack = {}) => C35_CommLifetime

\* Two connections share a comm that is open and counted twice.
C35_Shared ==
  \E key \in CommKeys, dir \in {0, 1} :
    /\ Cardinality(CommUsers(key, dir)) = 2
    /\ CommCount(key, dir) = 2 /\ CommHandle(key, dir) = "comm"

\* ---------------------------------------------------------------------------------
\* The free of a connection that proxySharedInit has pre-initialised (lines 432-437,
\* 752-757, 791-796, 1164-1165).

\* The refcount of the pool of localRank in direction type.
PoolRefcount(pl, localRank, type) == P2pOfType(pl.peer[localRank], type).refcount

\* A step in which the pre-initialised connection c is freed.
PreInitFreeStep(c) ==
  /\ conns[c].state = "SharedInitialized"
  /\ conns'[c].state = "Freed"

\* The free of c answers success and takes one from the send refcount of its local
\* rank, the one proxySharedInit has added to, and leaves the other direction alone.
PreInitFreeMatches(c) ==
  LET lr == conns[c].localRank
  IN /\ conns'[c].freed = "Success"
     /\ PoolRefcount(pool', lr, 0) = PoolRefcount(pool, lr, 0) - 1
     /\ PoolRefcount(pool', lr, 1) = PoolRefcount(pool, lr, 1)

\* C36: the free of a connection in state connSharedInitialized, send or receive,
\* decrements the refcount that proxySharedInit incremented for it, does not answer
\* InternalError and decrements no refcount that was not incremented.
C36_FreeMatchesInit ==
  [][\A c \in DOMAIN conns : PreInitFreeStep(c) => PreInitFreeMatches(c)]_vars

\* The free of a pre-initialised send connection is not refused and takes one from the
\* send refcount of its local rank and nothing from the receive refcount.
C36_SendFreeMatchesInit ==
  [][\A c \in DOMAIN conns :
       PreInitFreeStep(c) /\ conns[c].dir = 0 =>
         LET lr == conns[c].localRank
         IN /\ conns'[c].freed # "InternalError"
            /\ PoolRefcount(pool', lr, 0) = PoolRefcount(pool, lr, 0) - 1
            /\ PoolRefcount(pool', lr, 1) = PoolRefcount(pool, lr, 1)]_vars

\* A pre-initialised send connection was freed, and so was a pre-initialised receive
\* connection, whose free was refused.
C36_BothFreed ==
  \E c, d \in DOMAIN conns :
    /\ conns[c].state = "Freed" /\ conns[c].dir = 0 /\ conns[c].freed = "Success"
    /\ conns[d].state = "Freed" /\ conns[d].dir = 1 /\ conns[d].freed = "InternalError"

\* ---------------------------------------------------------------------------------
\* Completion accounting (lines 844-848, 939-948, 1133-1156).

\* The subs whose done is nsteps, and those of them that had a step to make.
SendFinished(subs) == {s \in DOMAIN subs : subs[s].done = subs[s].nsteps}
RecvFinished(subs) == {j \in DOMAIN subs : subs[j].done = subs[j].nsteps}
SendCounted(subs) == {s \in SendFinished(subs) : subs[s].nsteps > 0}
RecvCounted(subs) == {j \in RecvFinished(subs) : subs[j].nsteps > 0}

\* C37: once the first call has set the cursors, args->done is the number of subs whose
\* done is nsteps, each of them has left base + nsteps in resources->step, and the op
\* is in state None exactly when that number is nsubs.
C37_DoneCounts ==
  /\ sargs.state # "Ready" =>
       /\ sargs.done = Cardinality(SendFinished(ssubs))
       /\ \A s \in SendFinished(ssubs) : sres[s].step = ssubs[s].base + ssubs[s].nsteps
       /\ (sargs.state = "None") <=> (Cardinality(SendFinished(ssubs)) = sargs.nsubs)
  /\ rargs.state # "Ready" =>
       /\ rargs.done = Cardinality(RecvFinished(rsubs))
       /\ \A j \in RecvFinished(rsubs) :
            rres[rsubs[j].conn].step = rsubs[j].base + rsubs[j].nsteps
       /\ (rargs.state = "None") <=> (Cardinality(RecvFinished(rsubs)) = rargs.nsubs)

\* The same of the subs that had a step to make: args->done counts them, and the op is
\* in state None exactly when args->done is nsubs.
C37_DoneCountsStarted ==
  /\ sargs.state # "Ready" =>
       /\ sargs.done = Cardinality(SendCounted(ssubs))
       /\ \A s \in SendCounted(ssubs) : sres[s].step = ssubs[s].base + ssubs[s].nsteps
       /\ (sargs.state = "None") <=> (sargs.done = sargs.nsubs)
  /\ rargs.state # "Ready" =>
       /\ rargs.done = Cardinality(RecvCounted(rsubs))
       /\ \A j \in RecvCounted(rsubs) :
            rres[rsubs[j].conn].step = rsubs[j].base + rsubs[j].nsteps
       /\ (rargs.state = "None") <=> (rargs.done = rargs.nsubs)

\* A call adds to args->done the subs whose done it has brought to nsteps, and ends in
\* state None exactly when args->done has reached nsubs.
C37_CountedInTheCall ==
  /\ \A o \in SendOutcomes :
       /\ o.args.done = sargs.done + Cardinality(SendCounted(o.subs) \ SendCounted(ssubs))
       /\ SendCounted(ssubs) \subseteq SendCounted(o.subs)
       /\ (o.args.state = "None") <=> (o.args.done = o.args.nsubs)
  /\ \A o \in RecvOutcomes :
       /\ o.args.done = rargs.done + Cardinality(RecvCounted(o.subs) \ RecvCounted(rsubs))
       /\ RecvCounted(rsubs) \subseteq RecvCounted(o.subs)
       /\ (o.args.state = "None") <=> (o.args.done = o.args.nsubs)

\* Once the op is in state None a further call changes nothing of it, and no step of
\* the plugin or of the compute engine moves a cursor.
C37_NoneIsFinal ==
  /\ [](/\ (sargs.state = "None" /\ sargs.nsubs > 0) =>
             \A acc \in [DOMAIN ssubs -> BOOLEAN] :
               LET o == sendProxyProgress(SendState, acc)
               IN o.args.state = "None" /\ o.subs = ssubs /\ o.res = sres
          /\ (rargs.state = "None" /\ rargs.nsubs > 0) =>
               LET q == recvProxyProgress(RecvState, {}, TRUE)
               IN q.args.state = "None" /\ q.subs = rsubs /\ q.res = rres)
  /\ [][/\ sargs.state = "None" => SendCursors(ssubs') = SendCursors(ssubs)
        /\ rargs.state = "None" => RecvCursors(rsubs') = RecvCursors(rsubs)]_vars

\* An op of two subs has counted one of them and not yet the other.
C37_OneCounted ==
  \/ /\ sargs.state = "Progress" /\ sargs.nsubs = 2 /\ sargs.done = 1
     /\ Cardinality(SendFinished(ssubs)) = 1
  \/ /\ rargs.state = "Progress" /\ rargs.nsubs = 2 /\ rargs.done = 1
     /\ Cardinality(RecvFinished(rsubs)) = 1

\* An op of two subs has counted both and is in state None.
C37_AllCounted ==
  \/ sargs.state = "None" /\ sargs.nsubs = 2 /\ sargs.done = 2
  \/ rargs.state = "None" /\ rargs.nsubs = 2 /\ rargs.done = 2

=============================================================================
